---- MODULE Spec2Model ----
(***************************************************************************)
(* SkyGraph: the tool-calling agent loop (llm/index.ts, chatWithTools),    *)
(* the tool registry (llm/tools/registry.ts), the propose_edits handler    *)
(* and the validation runner (validation/run-validation.ts).               *)
(*                                                                         *)
(* The retry loop of chatCompletion (llm/provider.ts) and the code index  *)
(* (context/indexer) have specifications of their own.                    *)
(*                                                                         *)
(* Specifications:                                                         *)
(*   Spec     one chatWithTools invocation, stepped at its await points    *)
(*            (JavaScript runs the code between two awaits atomically, so  *)
(*            the abort signal can only change while a request or a tool   *)
(*            execution is pending, or before the call);                   *)
(*   SpecVal  one runValidation call on a bounded workspace;               *)
(*   SpecHttp one chatCompletion call, stepped at its awaits;              *)
(*   SpecFilter  isUsefulEntry applied to one extracted entry;             *)
(*   SpecWeights the symmetrization and normalization of the pattern       *)
(*            relations (indexer/pattern-graph.ts);                        *)
(*   SpecResolve the file relations buildGraphFromIndex derives from the   *)
(*            imports of a bounded index;                                  *)
(*   SpecIndex   buildIndex, updateIndex and updateIndexForFiles on a      *)
(*            bounded workspace whose files change between the calls;      *)
(*   SpecContext one getFinderProjectContext call, strings by length;      *)
(*   SpecSched   the debounced index update of extension.ts, in real time; *)
(*   SpecRegistry  the registry, the TOOLS list and the composite tools    *)
(*            over one session; SpecComposite adds that a pending          *)
(*            composite execution goes on;                                 *)
(*   SpecLookup  one search_files or read_file call on a bounded index;    *)
(*   SpecGraph   buildAndSaveGraph and updateGraphForFiles on bounded      *)
(*            indexes;                                                     *)
(*   SpecScan    the scan filter and isIndexedFile on one path;            *)
(*   SpecSync    buildIndex, then updateIndexForFiles with the files that  *)
(*            changed on disk since, then updateIndex;                     *)
(*   SpecOpen    getOrBuildIndex on index and graph files that may be      *)
(*            absent or corrupt;                                           *)
(*   SpecMessage the message chatCompletion makes of one LLM reply;        *)
(*   SpecMistakes  appendLLMMistake calls on the known-mistakes log.       *)
(***************************************************************************)
EXTENDS Integers, Sequences, FiniteSets, TLC

(* ------------------------------------------------------------------ *)
(* Program constants                                                    *)
(* ------------------------------------------------------------------ *)
MAX_TOOL_ROUNDS == 20

AttemptLimit == 5

ENABLE_VALIDATION_COMMANDS == FALSE

(* ------------------------------------------------------------------ *)
(* Bounds of the model                                                  *)
(* ------------------------------------------------------------------ *)
\* rounds of one invocation in which the LLM may answer something else
\* than its default reply
MaxDeviations == 1

\* longest edit list handed to runValidation in SpecVal
MaxEdits == 3

(* ------------------------------------------------------------------ *)
(* Values                                                               *)
(* ------------------------------------------------------------------ *)
Null == "null"

Absent == "absent"

\* normalized workspace paths
Paths == {"a.ts", "b.ts", "lib/a.ts"}

\* paths as a caller may spell them
RawPaths == Paths \cup {"lib\\a.ts"}

\* e.path.replace(/\\/g, '/')
NormalizePath(p) == IF p = "lib\\a.ts" THEN "lib/a.ts" ELSE p

\* workspace of the agent-loop specification: a.ts does not exist, the index
\* knows lib/a.ts and b.ts
LoopFiles == [p \in Paths |-> IF p = "a.ts" THEN Absent ELSE "orig"]

IndexedPaths == {"lib/a.ts", "b.ts"}

(* ------------------------------------------------------------------ *)
(* runValidation                                                        *)
(* ------------------------------------------------------------------ *)
\* Backup + write loop. failAt = i makes the i-th writeFile throw (the
\* backup of that edit is already pushed); failAt = 0: every write succeeds.
RECURSIVE BackupAndWrite(_, _, _, _, _)
BackupAndWrite(fs, edits, i, backups, failAt) ==
  IF i > Len(edits) THEN [fs |-> fs, backups |-> backups, threw |-> FALSE]
  ELSE LET n  == NormalizePath(edits[i].path)
           b  == [path |-> n, content |-> fs[n], existed |-> fs[n] # Absent]
           bs == Append(backups, b)
       IN IF failAt = i
          THEN [fs |-> fs, backups |-> bs, threw |-> TRUE]
          ELSE BackupAndWrite([fs EXCEPT ![n] = edits[i].content],
                              edits, i + 1, bs, failAt)

\* the finally block: for (const b of backups) restore or delete, in the
\* order the backups were taken
RECURSIVE Restore(_, _, _)
Restore(fs, backups, i) ==
  IF i > Len(backups) THEN fs
  ELSE Restore([fs EXCEPT ![backups[i].path] =
                   IF backups[i].existed THEN backups[i].content ELSE Absent],
               backups, i + 1)

\* commands run only behind ENABLE_VALIDATION_COMMANDS; cmdFails says whether
\* one of the commands would exit non-zero
ValidationHasErrors(hasCommands, cmdFails) ==
  hasCommands /\ ENABLE_VALIDATION_COMMANDS /\ cmdFails

RunValidation(fs, edits, failAt, hasCommands, cmdFails) ==
  IF Len(edits) = 0
  THEN [fs |-> fs, threw |-> FALSE, hasErrors |-> FALSE, ran |-> FALSE]
  ELSE LET bw == BackupAndWrite(fs, edits, 1, <<>>, failAt)
       IN [fs        |-> Restore(bw.fs, bw.backups, 1),
           threw     |-> bw.threw,
           hasErrors |-> ~bw.threw /\ ValidationHasErrors(hasCommands, cmdFails),
           ran       |-> TRUE]

(* ------------------------------------------------------------------ *)
(* Tool calls and the registry                                          *)
(* ------------------------------------------------------------------ *)
\* names registered by llm/tools/index.ts
RegistryNames == {"list_dir", "search_files", "read_file", "grep",
                  "get_project_commands", "propose_edits", "search_and_read",
                  "create_composite_tool", "think", "create_plan"}

\* call.function.arguments as the LLM sent it:
\*   "json"      a JSON object (edits: its edits array, path: its path)
\*   "nulljson"  the JSON text null (parses, the handler then reads a field of null)
\*   "badjson"   a string JSON.parse rejects
\*   "nonstring" no string at all (field missing or an object)
ArgKinds == {"json", "nulljson", "badjson", "nonstring"}

Edit(p, c) == [path |-> p, content |-> c]

Args(kind, path, edits) == [kind |-> kind, path |-> path, edits |-> edits]

Call(id, name, args) == [id |-> id, name |-> name, args |-> args]

\* trimmed === '{}' || trimmed === '[]' || trimmed === ''
IsPlaceholder(content) == content \in {"{}", "[]", ""}

FileName(p) == IF p = "lib/a.ts" THEN "a.ts" ELSE p

\* resolvePathCandidates: indexed paths with the requested file name (the
\* modelled index holds at most one per name)
ResolvePathCandidates(requested) ==
  LET hits == {p \in IndexedPaths : FileName(p) = FileName(requested)}
  IN IF hits = {} THEN <<>> ELSE <<CHOOSE p \in hits : TRUE>>

\* readFileWithFallback: the exact path, else the first readable candidate
ReadFileWithFallback(fs, filePath) ==
  IF fs[filePath] # Absent
  THEN [found |-> TRUE, content |-> fs[filePath], resolvedPath |-> filePath]
  ELSE LET cands == ResolvePathCandidates(filePath)
           ok    == {i \in 1..Len(cands) : fs[cands[i]] # Absent}
       IN IF ok = {}
          THEN [found |-> FALSE, content |-> "", resolvedPath |-> filePath]
          ELSE LET i == CHOOSE j \in ok : \A k \in ok : j <= k
               IN [found |-> TRUE, content |-> fs[cands[i]], resolvedPath |-> cands[i]]

\* what a handler hands back to registry execute
HandlerOut(result, diff, fs, threw, validated) ==
  [result |-> result, hasDiff |-> diff # <<>>, diffFiles |-> diff, fs |-> fs,
   threw |-> threw, validated |-> validated]

\* the edits propose_edits keeps: normalized path, placeholder content dropped
RECURSIVE KeptEdits(_)
KeptEdits(raw) ==
  IF raw = <<>> THEN <<>>
  ELSE LET e == raw[1]
       IN IF IsPlaceholder(e.content)
          THEN KeptEdits(Tail(raw))
          ELSE <<Edit(NormalizePath(e.path), e.content)>> \o KeptEdits(Tail(raw))

RECURSIVE Originals(_, _)
Originals(fs, edits) ==
  IF edits = <<>> THEN <<>>
  ELSE LET f == ReadFileWithFallback(fs, edits[1].path)
       IN <<[path |-> f.resolvedPath, originalContent |-> f.content,
             proposedContent |-> edits[1].content]>> \o Originals(fs, Tail(edits))

\* attempt >= 5: the call is refused
ProposeRefused(attempt) == attempt >= AttemptLimit

\* proposeEditsHandler.execute; attempt is context?.proposeEditsAttempt ?? 0
ProposeEditsHandler(args, attempt, fs) ==
  IF ProposeRefused(attempt) THEN HandlerOut("attempt_limit", <<>>, fs, FALSE, FALSE)
  ELSE IF args.kind = "nulljson" THEN HandlerOut("", <<>>, fs, TRUE, FALSE)
  ELSE IF args.edits = <<>> THEN HandlerOut("expected_edits", <<>>, fs, FALSE, FALSE)
  ELSE LET edits == KeptEdits(args.edits)
       IN IF edits = <<>>
          THEN HandlerOut("placeholder_error", <<>>, fs, FALSE, FALSE)
          ELSE LET originals == Originals(fs, edits)
                   rv        == RunValidation(fs, edits, 0, FALSE, FALSE)
               IN HandlerOut(IF rv.hasErrors THEN "validation_errors"
                                             ELSE "validation_passed",
                             originals, rv.fs, FALSE, TRUE)

\* readFileHandler.execute
ReadFileHandler(args, fs) ==
  IF args.kind = "nulljson" THEN HandlerOut("", <<>>, fs, TRUE, FALSE)
  ELSE IF args.path = "" THEN HandlerOut("empty_path", <<>>, fs, FALSE, FALSE)
  ELSE LET f == ReadFileWithFallback(fs, NormalizePath(args.path))
       IN IF ~f.found THEN HandlerOut("file_not_found", <<>>, fs, FALSE, FALSE)
          ELSE IF f.resolvedPath = NormalizePath(args.path)
               THEN HandlerOut("file_content", <<>>, fs, FALSE, FALSE)
               ELSE HandlerOut("file_content_substituted", <<>>, fs, FALSE, FALSE)

\* the handlers registered by llm/tools/index.ts
BuiltinExecute(name, args, attempt, fs) ==
  IF name = "propose_edits" THEN ProposeEditsHandler(args, attempt, fs)
  ELSE IF name = "read_file" THEN ReadFileHandler(args, fs)
  ELSE HandlerOut("tool_text", <<>>, fs, args.kind = "nulljson", FALSE)

\* a tool an earlier create_composite_tool call of the session registered:
\* steps: [{tool: 'propose_edits', args: {edits: [{path: 'b.ts', content: 'x'}]}}]
SessionComposites ==
  [fix_and_check |->
     <<[tool |-> "propose_edits", args |-> Args("json", "", <<Edit("b.ts", "x")>>)]>>]

Registered == RegistryNames \cup DOMAIN SessionComposites

\* one pass of the for loop of newHandler.execute, h being what
\* handler.execute returned or threw
StepResult(h, before) ==
  [fs |-> h.fs, failed |-> h.threw,
   validations |-> before.validations + (IF h.validated THEN 1 ELSE 0)]

\* the for loop of newHandler.execute: handler.execute(resolvedArgs,
\* execWorkspaceUri) has no third argument, a throw of a step ends the loop
RECURSIVE RunSteps(_, _, _)
RunSteps(steps, i, before) ==
  IF i > Len(steps) \/ before.failed THEN before
  ELSE RunSteps(steps, i + 1,
                StepResult(BuiltinExecute(steps[i].tool, steps[i].args, 0, before.fs),
                           before))

\* newHandler.execute returns a string, the diffPayload of a step is dropped;
\* validations: the runValidation calls its steps made
CompositeOut(r) ==
  [result |-> IF r.failed THEN "composite_step_error" ELSE "composite_done",
   hasDiff |-> FALSE, diffFiles |-> <<>>, fs |-> r.fs, threw |-> FALSE,
   validated |-> r.validations > 0, validations |-> r.validations]

CompositeExecute(name, args, fs) ==
  IF args.kind = "nulljson" THEN HandlerOut("", <<>>, fs, TRUE, FALSE)
  ELSE CompositeOut(RunSteps(SessionComposites[name], 1,
                             [fs |-> fs, failed |-> FALSE, validations |-> 0]))

RunHandler(name, args, attempt, fs) ==
  IF name \in DOMAIN SessionComposites THEN CompositeExecute(name, args, fs)
  ELSE BuiltinExecute(name, args, attempt, fs)

\* does registry execute reach handler.execute?
Dispatches(call) == call.name \in Registered /\ call.args.kind # "badjson"

\* runValidation calls made while the handler of a call ran
ValidationsRun(out) ==
  IF "validations" \in DOMAIN out THEN out.validations
  ELSE IF out.validated THEN 1 ELSE 0

\* handler.execute awaited outside the try block
ExecuteNoCatch(call, attempt, fs) ==
  IF call.name \notin Registered
  THEN [out |-> HandlerOut("unknown_tool", <<>>, fs, FALSE, FALSE), ranHandler |-> FALSE]
  ELSE IF call.args.kind = "badjson"
  THEN [out |-> HandlerOut("invalid_json", <<>>, fs, FALSE, FALSE), ranHandler |-> FALSE]
  ELSE [out |-> RunHandler(call.name, call.args, attempt, fs), ranHandler |-> TRUE]

\* registry execute(call, workspaceUri, context): never a throw, a string or
\* {result, diffPayload}
Execute(call, attempt, fs) ==
  IF call.name \notin Registered
  THEN [out |-> HandlerOut("unknown_tool", <<>>, fs, FALSE, FALSE), ranHandler |-> FALSE]
  ELSE IF call.args.kind = "badjson"
  THEN [out |-> HandlerOut("invalid_json", <<>>, fs, FALSE, FALSE), ranHandler |-> FALSE]
  ELSE LET h == RunHandler(call.name, call.args, attempt, fs)
       IN IF h.threw
          THEN [out |-> HandlerOut("handler_error", <<>>, h.fs, FALSE, FALSE),
                ranHandler |-> TRUE]
          ELSE [out |-> h, ranHandler |-> TRUE]

(* ------------------------------------------------------------------ *)
(* The LLM double and chatCompletion as the loop sees it                *)
(* ------------------------------------------------------------------ *)
\* what the endpoint answers: a transport failure, or choices[0].message
Reply(content, calls) == [fail |-> FALSE, content |-> content, tool_calls |-> calls]

FailedRequest == [fail |-> TRUE, content |-> Null, tool_calls |-> <<>>]

NoArgs(kind) == Args(kind, "b.ts", <<>>)

ReadCall(id) == Call(id, "read_file", NoArgs("json"))

ProposeCall(id, edits) == Call(id, "propose_edits", Args("json", "", edits))

\* the reply the double gives in every round unless it deviates
BaseReplies ==
  { Reply(Null, <<ReadCall(1)>>),
    Reply(Null, <<ProposeCall(1, <<Edit("b.ts", "x")>>)>>),
    Reply("c1", <<ReadCall(1), ProposeCall(2, <<Edit("a.ts", "y")>>)>>),
    Reply(Null, <<Call(1, "fix_and_check", NoArgs("json"))>>) }

DevReplies ==
  { FailedRequest,
    Reply("", <<>>),
    Reply("c2", <<>>),
    Reply(Null, <<ReadCall(1), Call(2, "read_file", NoArgs("nonstring"))>>),
    Reply("c2", <<Call(1, "no_such_tool", NoArgs("json")),
                  Call(2, "read_file", NoArgs("badjson"))>>),
    Reply(Null, <<Call(1, "read_file", NoArgs("nulljson")),
                  ProposeCall(2, <<Edit("b.ts", "{}")>>)>>),
    Reply(Null, <<ProposeCall(1, <<Edit("b.ts", "{}"), Edit("lib\\a.ts", "z")>>)>>) }

\* caller-supplied message lists
Msg(role, content, calls, id) ==
  [role |-> role, content |-> content, tool_calls |-> calls, tool_call_id |-> id]

Histories ==
  { <<Msg("user", "q", <<>>, 0)>>,
    <<Msg("user", "q0", <<>>, 0), Msg("assistant", "h", <<>>, 0),
      Msg("user", "q", <<>>, 0)>> }

\* the abort checks left out
SignalIgnored(sig) == FALSE

\* signal?.aborted
SignalAborted(sig) == sig

NullResponse == [isNull |-> TRUE, content |-> Null, tool_calls |-> <<>>]

\* chatCompletion: null once the signal is aborted (checked before each attempt,
\* and fetch rejects with an AbortError that is not retried), null on failure,
\* null when the message has neither content nor tool calls
ChatCompletion(raw, sig) ==
  IF SignalAborted(sig) \/ raw.fail THEN NullResponse
  ELSE LET content == IF raw.content \in {"", Null} THEN Null ELSE raw.content
       IN IF content = Null /\ raw.tool_calls = <<>> THEN NullResponse
          ELSE [isNull |-> FALSE, content |-> content, tool_calls |-> raw.tool_calls]

(* ------------------------------------------------------------------ *)
(* State                                                                *)
(* ------------------------------------------------------------------ *)
VARIABLES
  pc,                  \* where the chatWithTools invocation stands
  configEnabled,       \* config?.enabled
  messages,            \* the caller's message list
  loop,                \* const loop: LLMMessage[]
  round,               \* the for-loop counter
  resp,                \* the response of the current round
  ti,                  \* index of the tool call being processed (1-based)
  toolsUsed,
  proposeEditsAttempt,
  pendingDiffFiles,    \* Map path -> file, in insertion order
  pendingDiffEdits,    \* Map path -> edit, in insertion order
  trackerParts,        \* ContextTracker.parts.length
  aborted,             \* signal.aborted
  result,              \* the ChatResult returned
  files,               \* the workspace files
  base,                \* the LLM double's default reply
  devUsed,             \* rounds in which the double deviated
  llmCalls,            \* chatCompletion calls made
  startedAfterAbort,   \* a request or a tool execution began with the signal set
  flushes,             \* onProposeEditsDiff invocations
  events,              \* tool executions of the current assistant turn
  proposeLog,          \* outcome of each propose_edits call
  validations,         \* runValidation calls of this invocation
  executed,            \* names of the tools whose execution finished
  lastExec,            \* the latest registry execute call and its outcome
  vPc, vFiles0, vEdits, vFailAt, vThrew,  \* SpecVal: one runValidation call
  vReport,             \* the options it was given and what it reported
  hPc,                 \* SpecHttp: where the chatCompletion call stands
  hAttempt,            \* the for-loop counter attempt
  hAborted,            \* options.signal.aborted
  hRequests,           \* fetch calls issued
  hLast,               \* outcome of the latest request
  hDelay,              \* the delay of the backoff wait in progress (ms)
  hResult,             \* what chatCompletion returned
  hSentAfterAbort,    \* a request was issued with the signal set
  uEntry,              \* SpecFilter: the extracted entry under test
  uUseful,             \* what isUsefulEntry answered for it
  wRels,               \* SpecWeights: patternRelations, in relationMap order
  wPatterns,           \* the normalized pattern-to-pattern map
  wVia,                \* the function that computed it
  rIndex,              \* SpecResolve: the index entries, in key order
  rFiles,              \* graph.files built from them
  rBuilt,              \* buildGraphFromIndex has run
  ws,                  \* SpecIndex: the source files on disk
  iCache,              \* .code-index/index.json
  gFile,               \* .code-index/pattern-graph.json
  iOps,                \* index operations run so far; Date.now() of the next
  iLast,               \* the latest index operation and what it wrote
  cPc,                 \* SpecContext: where getFinderProjectContext stands
  cParts,              \* const parts: string[], each string by its length
  cOut,                \* the length of the string returned, -1 for null
  sNow,                \* SpecSched: the time, in ms since activation
  sTimer,              \* when indexDebounceTimer is due, -1 for null
  sRunning,            \* index builds and updates started and not yet finished
  sEvents,             \* qualifying file events so far
  sLastEvent,          \* the time of the latest qualifying event, -1 if none
  sBurst,              \* qualifying events of the current burst
  sStarts,             \* updates started since the latest qualifying event
  sStartAt,            \* when the latest update started, -1 if none
  gRegistry,           \* SpecRegistry: const registry, name -> handler
  gSent,               \* the latest request to the LLM: the tool names it
                       \* carried and the names dispatchable at that time
  gLastCreate,         \* what the latest create_composite_tool call returned
  gHeap,               \* the handler objects created so far, by number
  gStack,              \* the composite executions in progress, outermost first
  gTrace,              \* the steps the outermost execution has invoked
  gRun,                \* the outermost execution: state, handler, failed step
  kIndex,              \* SpecLookup: the keys of index.files, in key order
  kCall,               \* the latest search_files or read_file call
  uOld,                \* the index the persisted graph was last written for
  uIndex,              \* the index passed to the graph functions
  uChanged,            \* changedRelPaths of the latest updateGraphForFiles
  uPrev,               \* pattern-graph.json before the latest call
  uGraph,              \* pattern-graph.json
  uStep,               \* graph calls made
  wsWritten,           \* the workspace files as they were when index.json was
                       \* last written
  oIndex, oGraph,      \* index.json and pattern-graph.json as files: absent,
                       \* corrupt or ok
  mMsg, mOut,          \* a message of the LLM and what chatCompletion returns
  lLog, lLast,         \* the known-mistakes log and the latest append
  pPath,               \* a path of the workspace, relative to its root
  pAnswer,             \* what the scan and isIndexedFile say of it
  kOut                 \* what it returned

loopVars == <<pc, configEnabled, messages, loop, round, resp, ti, toolsUsed,
              proposeEditsAttempt, pendingDiffFiles, pendingDiffEdits,
              trackerParts, aborted, result, base, devUsed, llmCalls,
              startedAfterAbort, flushes, events, proposeLog, validations, executed, lastExec>>

valVars == <<vPc, vFiles0, vEdits, vFailAt, vThrew, vReport>>

httpVars == <<hPc, hAttempt, hAborted, hRequests, hLast, hDelay, hResult,
              hSentAfterAbort>>

filterVars == <<uEntry, uUseful>>

weightVars == <<wRels, wPatterns, wVia>>

resolveVars == <<rIndex, rFiles, rBuilt>>

indexVars == <<ws, iCache, gFile, iOps, iLast>>

idxVars == <<filterVars, weightVars, resolveVars, indexVars>>

ctxVars == <<cPc, cParts, cOut>>

schedVars == <<sNow, sTimer, sRunning, sEvents, sLastEvent, sBurst, sStarts,
               sStartAt>>

regVars == <<gRegistry, gSent, gLastCreate, gHeap, gStack, gTrace, gRun>>

lookupVars == <<kIndex, kCall, kOut>>

graphVars == <<uOld, uIndex, uChanged, uPrev, uGraph, uStep>>

pathVars == <<pPath, pAnswer>>

syncVars == <<wsWritten>>

openVars == <<oIndex, oGraph>>

msgVars == <<mMsg, mOut>>

logVars == <<lLog, lLast>>

lateVars == <<openVars, msgVars, logVars>>

ideVars == <<ctxVars, schedVars, regVars, lookupVars, graphVars, pathVars,
             syncVars, lateVars>>

extVars == <<httpVars, idxVars, ideVars>>

vars == <<loopVars, files, valVars, extVars>>

NoResult == [exit |-> "none", content |-> Null, toolsUsed |-> <<>>,
             hasTracker |-> FALSE, trackerParts |-> 0]

\* a result that forgets the tools already used
ChatResultNoTools(exit, content, used, hasTracker, parts) ==
  [exit |-> exit, content |-> content, toolsUsed |-> <<>>,
   hasTracker |-> hasTracker, trackerParts |-> IF hasTracker THEN parts ELSE 0]

ChatResult(exit, content, used, hasTracker, parts) ==
  [exit |-> exit, content |-> content, toolsUsed |-> used,
   hasTracker |-> hasTracker, trackerParts |-> IF hasTracker THEN parts ELSE 0]

NoExec == [name |-> "", kind |-> "", ranHandler |-> FALSE, result |-> "",
           threw |-> FALSE, handlerThrew |-> FALSE]

LoopIdle ==
  /\ pc = "idle" /\ configEnabled = TRUE /\ messages = <<>> /\ loop = <<>>
  /\ round = 0 /\ resp = NullResponse /\ ti = 0 /\ toolsUsed = <<>>
  /\ proposeEditsAttempt = 0 /\ pendingDiffFiles = <<>> /\ pendingDiffEdits = <<>>
  /\ trackerParts = 0 /\ aborted = FALSE /\ result = NoResult
  /\ base = FailedRequest /\ devUsed = 0 /\ llmCalls = 0
  /\ startedAfterAbort = FALSE /\ flushes = <<>> /\ events = <<>>
  /\ proposeLog = <<>> /\ validations = 0 /\ executed = <<>> /\ lastExec = NoExec

\* the request outcome before any request
NoOutcome == [kind |-> "none", status |-> 0, body |-> "plain"]

HttpIdle ==
  /\ hPc = "idle" /\ hAttempt = 0 /\ hAborted = FALSE /\ hRequests = 0
  /\ hLast = NoOutcome /\ hDelay = 0 /\ hResult = "none"
  /\ hSentAfterAbort = FALSE

\* an entry with nothing extracted
NoEntry == [lines |-> 0, pattern |-> "other", imports |-> <<>>, exports |-> 0,
            functions |-> 0, classes |-> 0, hooks |-> 0]

FilterIdle == uEntry = NoEntry /\ uUseful = "none"

\* graph.patterns = {}
NoPatterns == [p \in {} |-> [q \in {} |-> 0]]

WeightsIdle == wRels = <<>> /\ wPatterns = NoPatterns /\ wVia = "none"

\* graph.files = {}
NoRelations == [f \in {} |-> <<>>]

ResolveIdle == rIndex = <<>> /\ rFiles = NoRelations /\ rBuilt = FALSE

\* no index.json
NoCache == [exists |-> FALSE, timestamp |-> 0, files |-> <<>>, projectHash |-> {},
            lastScan |-> 0, fileCount |-> 0]

\* no pattern-graph.json
NoGraph ==
  [exists |-> FALSE, generatedAt |-> 0, patterns |-> NoPatterns,
   filesByPattern |-> NoRelations, examples |-> {}, files |-> NoRelations]

NoOp == [op |-> "none", changed |-> <<>>, deleted |-> {}, wroteIndex |-> FALSE,
         wroteGraph |-> FALSE, repeat |-> FALSE, dropped |-> {}, quiet |-> FALSE]

IndexIdle ==
  /\ ws = <<>> /\ iCache = NoCache /\ gFile = NoGraph /\ iOps = 0
  /\ iLast = NoOp

IdxIdle == FilterIdle /\ WeightsIdle /\ ResolveIdle /\ IndexIdle

CtxIdle == cPc = "idle" /\ cParts = <<>> /\ cOut = -1

SchedIdle ==
  /\ sNow = 0 /\ sTimer = -1 /\ sRunning = 0 /\ sEvents = 0 /\ sLastEvent = -1
  /\ sBurst = 0 /\ sStarts = 0 /\ sStartAt = -1

\* no request yet
NoRequest == [tools |-> {}, dispatchable |-> {}]

NoRun == [state |-> "idle", root |-> 0, failedAt |-> 0]

RegIdle ==
  /\ gRegistry = <<>> /\ gSent = NoRequest /\ gLastCreate = "none"
  /\ gHeap = <<>> /\ gStack = <<>> /\ gTrace = <<>> /\ gRun = NoRun

NoLookup == [tool |-> "none", tokens |-> <<>>, path |-> <<>>]

NoAnswer == [status |-> "none", paths |-> <<>>]

LookupIdle == kIndex = <<>> /\ kCall = NoLookup /\ kOut = NoAnswer

GraphIdle ==
  /\ uOld = <<>> /\ uIndex = <<>> /\ uChanged = {} /\ uPrev = NoGraph
  /\ uGraph = NoGraph /\ uStep = 0

NoPathAnswer == [asked |-> FALSE, scanned |-> FALSE, indexed |-> FALSE]

PathIdle == pPath = <<>> /\ pAnswer = NoPathAnswer

SyncIdle == wsWritten = <<>>

OpenIdle == oIndex = "absent" /\ oGraph = "absent"

\* a choice message: its tool_calls, its content (null, '' or text) and, for
\* text, the tool-call marker in it
NoMessage == [calls |-> <<>>, content |-> "null", marker |-> "none"]

NoReply == [asked |-> FALSE, isNull |-> TRUE, calls |-> <<>>, content |-> "null"]

MsgIdle == mMsg = NoMessage /\ mOut = NoReply

LogIdle == lLog = <<>> /\ lLast = "none"

LateIdle == OpenIdle /\ MsgIdle /\ LogIdle

IdeIdle ==
  /\ CtxIdle /\ SchedIdle /\ RegIdle /\ LookupIdle /\ GraphIdle /\ PathIdle
  /\ SyncIdle /\ LateIdle

ExtIdle == HttpIdle /\ IdxIdle /\ IdeIdle

NoReport == [hasCommands |-> FALSE, cmdFails |-> FALSE, hasErrors |-> FALSE]

ValIdle ==
  /\ vPc = "idle" /\ vFiles0 = LoopFiles /\ vEdits = <<>> /\ vFailAt = 0
  /\ vThrew = FALSE /\ vReport = NoReport

\* chatWithTools has just been called
Init ==
  /\ pc = "start"
  /\ configEnabled \in BOOLEAN
  /\ messages \in Histories
  /\ base \in BaseReplies
  /\ loop = <<>> /\ round = 0 /\ resp = NullResponse /\ ti = 0
  /\ toolsUsed = <<>> /\ proposeEditsAttempt = 0
  /\ pendingDiffFiles = <<>> /\ pendingDiffEdits = <<>>
  /\ trackerParts = 0 /\ aborted = FALSE /\ result = NoResult
  /\ devUsed = 0 /\ llmCalls = 0 /\ startedAfterAbort = FALSE
  /\ flushes = <<>> /\ events = <<>> /\ proposeLog = <<>> /\ validations = 0 /\ executed = <<>> /\ lastExec = NoExec
  /\ files = LoopFiles
  /\ ValIdle
  /\ ExtIdle

(* ------------------------------------------------------------------ *)
(* chatWithTools                                                        *)
(* ------------------------------------------------------------------ *)
\* Map.set on an insertion-ordered map kept as a sequence of [path |-> ...]
RECURSIVE MapSet(_, _)
MapSet(m, v) ==
  IF m = <<>> THEN <<v>>
  ELSE IF m[1].path = v.path THEN <<v>> \o Tail(m)
  ELSE <<m[1]>> \o MapSet(Tail(m), v)

RECURSIVE MapSetAll(_, _)
MapSetAll(m, vs) ==
  IF vs = <<>> THEN m ELSE MapSetAll(MapSet(m, vs[1]), Tail(vs))

RECURSIVE NormalizedEdits(_)
NormalizedEdits(raw) ==
  IF raw = <<>> THEN <<>>
  ELSE <<Edit(NormalizePath(raw[1].path), raw[1].content)>> \o NormalizedEdits(Tail(raw))

\* loop.filter((m) => m.role === 'assistant' && m.content).pop()?.content ?? null
LastAssistantContent(lp) ==
  LET idx == {i \in 1..Len(lp) :
                lp[i].role = "assistant" /\ lp[i].content \notin {Null, ""}}
  IN IF idx = {} THEN Null
     ELSE lp[CHOOSE i \in idx : \A j \in idx : j <= i].content

\* the tool message put in front of the results already appended
PushToolMessageBefore(lp, tc, content) ==
  IF lp[Len(lp)].role = "tool"
  THEN SubSeq(lp, 1, Len(lp) - 1) \o <<Msg("tool", content, <<>>, tc.id), lp[Len(lp)]>>
  ELSE Append(lp, Msg("tool", content, <<>>, tc.id))

\* loop.push({ role: 'tool', tool_call_id: tc.id, content })
PushToolMessage(lp, tc, content) == Append(lp, Msg("tool", content, <<>>, tc.id))

\* toolCtx = name === 'propose_edits' ? { proposeEditsAttempt } : undefined,
\* read by the handler as context?.proposeEditsAttempt ?? 0
CtxAttempt(name, attempt) == IF name = "propose_edits" THEN attempt ELSE 0

\* the diff surfaced as soon as the tool returns it
OnToolDiffSurfaced(fl, out) ==
  IF out.hasDiff THEN Append(fl, [at |-> "tool", files |-> out.diffFiles, edits |-> <<>>])
  ELSE fl

\* a tool result with a diffPayload is only accumulated (pendingDiffFiles,
\* pendingDiffEdits): onProposeEditsDiff is not invoked in the tool loop
OnToolDiff(fl, out) == fl

\* if (pendingDiffFiles.size > 0 && onProposeEditsDiff) onProposeEditsDiff(...)
Flush(at) ==
  flushes' = IF pendingDiffFiles # <<>>
             THEN Append(flushes, [at |-> at, files |-> pendingDiffFiles,
                                   edits |-> pendingDiffEdits])
             ELSE flushes

Return(r) == /\ result' = r
             /\ pc' = "done"

CurrentCall == resp.tool_calls[ti]

\* if (!config?.enabled) return { content: null }
StartDisabled ==
  /\ pc = "start" /\ ~configEnabled
  /\ Return(ChatResult("disabled", Null, <<>>, FALSE, 0))
  /\ UNCHANGED <<configEnabled, messages, loop, round, resp, ti, toolsUsed,
                 proposeEditsAttempt, pendingDiffFiles, pendingDiffEdits,
                 trackerParts, aborted, base, devUsed, llmCalls,
                 startedAfterAbort, flushes, events, proposeLog, validations, executed, lastExec,
                 files, valVars, extVars>>

\* loop = [...messages]; tracker.add for each message
Start ==
  /\ pc = "start" /\ configEnabled
  /\ loop' = messages
  /\ trackerParts' = Len(messages)
  /\ pc' = "round"
  /\ UNCHANGED <<configEnabled, messages, round, resp, ti, toolsUsed,
                 proposeEditsAttempt, pendingDiffFiles, pendingDiffEdits,
                 aborted, result, base, devUsed, llmCalls, startedAfterAbort,
                 flushes, events, proposeLog, validations, executed, lastExec, files, valVars, extVars>>

\* top of a round: the abort check, then the request is sent
BeginRound ==
  /\ pc = "round" /\ round < MAX_TOOL_ROUNDS
  /\ IF SignalAborted(aborted)
     THEN /\ Return(ChatResult("abort_round", Null, toolsUsed, TRUE, trackerParts))
          /\ UNCHANGED <<llmCalls, startedAfterAbort>>
     ELSE /\ pc' = "llm"
          /\ llmCalls' = llmCalls + 1
          /\ startedAfterAbort' = (startedAfterAbort \/ aborted)
          /\ UNCHANGED result
  /\ UNCHANGED <<configEnabled, messages, loop, round, resp, ti, toolsUsed,
                 proposeEditsAttempt, pendingDiffFiles, pendingDiffEdits,
                 trackerParts, aborted, base, devUsed, flushes, events,
                 proposeLog, validations, executed, lastExec, files, valVars, extVars>>

\* the for loop ran out: flush, return the last assistant content of loop
HitMaxRounds ==
  /\ pc = "round" /\ round >= MAX_TOOL_ROUNDS
  /\ Flush("cap")
  /\ Return(ChatResult("cap", LastAssistantContent(loop), toolsUsed, TRUE, trackerParts))
  /\ UNCHANGED <<configEnabled, messages, loop, round, resp, ti, toolsUsed,
                 proposeEditsAttempt, pendingDiffFiles, pendingDiffEdits,
                 trackerParts, aborted, base, devUsed, llmCalls,
                 startedAfterAbort, events, proposeLog, validations, executed, lastExec, files, valVars, extVars>>

\* the replies the double may give now
RepliesNow ==
  IF aborted THEN {base}
  ELSE {base} \cup (IF devUsed < MaxDeviations THEN DevReplies ELSE {})

Deviate(raw) == devUsed' = IF raw = base \/ aborted THEN devUsed ELSE devUsed + 1

\* chatCompletion returned null
LLMNull ==
  /\ pc = "llm"
  /\ \E raw \in RepliesNow :
       /\ ChatCompletion(raw, aborted).isNull
       /\ Deviate(raw)
       /\ resp' = NullResponse
  /\ IF SignalAborted(aborted)
     THEN Return(ChatResult("abort_llm", Null, toolsUsed, TRUE, trackerParts))
     ELSE Return(ChatResult("null_llm", Null, toolsUsed, FALSE, 0))
  /\ UNCHANGED <<configEnabled, messages, loop, round, ti, toolsUsed,
                 proposeEditsAttempt, pendingDiffFiles, pendingDiffEdits,
                 trackerParts, aborted, base, llmCalls, startedAfterAbort,
                 flushes, events, proposeLog, validations, executed, lastExec, files, valVars, extVars>>

\* the response carries tool calls: the assistant turn is appended
LLMToolCalls ==
  /\ pc = "llm"
  /\ \E raw \in RepliesNow :
       LET r == ChatCompletion(raw, aborted)
       IN /\ ~r.isNull /\ r.tool_calls # <<>>
          /\ Deviate(raw)
          /\ resp' = r
          /\ loop' = Append(loop, Msg("assistant", r.content, r.tool_calls, 0))
  /\ trackerParts' = trackerParts + 1
  /\ ti' = 1
  /\ events' = <<>>
  /\ pc' = "tool"
  /\ UNCHANGED <<configEnabled, messages, round, toolsUsed, proposeEditsAttempt,
                 pendingDiffFiles, pendingDiffEdits, aborted, result, base,
                 llmCalls, startedAfterAbort, flushes, proposeLog, validations, executed, lastExec,
                 files, valVars, extVars>>

\* plain content: the final answer
LLMFinal ==
  /\ pc = "llm"
  /\ \E raw \in RepliesNow :
       LET r == ChatCompletion(raw, aborted)
       IN /\ ~r.isNull /\ r.tool_calls = <<>>
          /\ Deviate(raw)
          /\ resp' = r
          /\ trackerParts' = IF r.content # Null THEN trackerParts + 1 ELSE trackerParts
          /\ Flush("final")
          /\ Return(ChatResult("final", r.content, toolsUsed, TRUE, trackerParts'))
  /\ UNCHANGED <<configEnabled, messages, loop, round, ti, toolsUsed,
                 proposeEditsAttempt, pendingDiffFiles, pendingDiffEdits,
                 aborted, base, llmCalls, startedAfterAbort, events,
                 proposeLog, validations, executed, lastExec, files, valVars, extVars>>

\* for (const tc of response.tool_calls): abort check, toolsUsed.push, the
\* counter, then executeTool is awaited
ToolStart ==
  /\ pc = "tool" /\ ti <= Len(resp.tool_calls)
  /\ IF SignalAborted(aborted)
     THEN /\ Return(ChatResult("abort_before_tool", Null, toolsUsed, TRUE, trackerParts))
          /\ UNCHANGED <<toolsUsed, proposeEditsAttempt, events, startedAfterAbort>>
     ELSE /\ CurrentCall.args.kind # "nonstring"
          /\ toolsUsed' = Append(toolsUsed, CurrentCall.name)
          /\ proposeEditsAttempt' = IF CurrentCall.name = "propose_edits"
                                    THEN proposeEditsAttempt + 1
                                    ELSE proposeEditsAttempt
          /\ events' = Append(events, <<"start", CurrentCall.id>>)
          /\ startedAfterAbort' = (startedAfterAbort \/ aborted)
          /\ pc' = "toolrun"
          /\ UNCHANGED result
  /\ UNCHANGED <<configEnabled, messages, loop, round, resp, ti,
                 pendingDiffFiles, pendingDiffEdits, trackerParts, aborted,
                 base, devUsed, llmCalls, flushes, proposeLog, validations, executed, lastExec,
                 files, valVars, extVars>>

\* tc.function.arguments.slice(...) on arguments that are no string: a
\* TypeError outside any try block leaves chatWithTools
ToolArgsThrow ==
  /\ pc = "tool" /\ ti <= Len(resp.tool_calls)
  /\ ~SignalAborted(aborted)
  /\ CurrentCall.args.kind = "nonstring"
  /\ toolsUsed' = Append(toolsUsed, CurrentCall.name)
  /\ pc' = "thrown"
  /\ UNCHANGED <<configEnabled, messages, loop, round, resp, ti,
                 proposeEditsAttempt, pendingDiffFiles, pendingDiffEdits,
                 trackerParts, aborted, result, base, devUsed, llmCalls,
                 startedAfterAbort, flushes, events, proposeLog, validations, executed, lastExec,
                 files, valVars, extVars>>

\* executeTool resolved: abort check, diff accumulation, the tool message
ToolFinish ==
  /\ pc = "toolrun"
  /\ LET tc == CurrentCall
         ex == Execute(tc, CtxAttempt(tc.name, proposeEditsAttempt), files)
     IN /\ files' = ex.out.fs
        /\ events' = Append(events, <<"finish", tc.id>>)
        /\ executed' = Append(executed, tc.name)
        /\ validations' = validations + ValidationsRun(ex.out)
        /\ flushes' = OnToolDiff(flushes, ex.out)
        /\ lastExec' = [name |-> tc.name, kind |-> tc.args.kind,
                        ranHandler |-> ex.ranHandler, result |-> ex.out.result,
                        threw |-> ex.out.threw,
                        handlerThrew |-> Dispatches(tc) /\
                           RunHandler(tc.name, tc.args,
                                      CtxAttempt(tc.name, proposeEditsAttempt),
                                      files).threw]
        /\ proposeLog' = IF tc.name = "propose_edits"
                         THEN Append(proposeLog,
                                [validated |-> ex.out.validated,
                                 refused   |-> ex.out.result = "attempt_limit",
                                 valid     |-> tc.args.kind = "json"
                                               /\ KeptEdits(tc.args.edits) # <<>>,
                                 changed   |-> ex.out.fs # files,
                                 kept      |-> IF ex.out.hasDiff
                                               THEN KeptEdits(tc.args.edits)
                                               ELSE <<>>,
                                 diff      |-> ex.out.diffFiles])
                         ELSE proposeLog
        /\ IF SignalAborted(aborted)
           THEN /\ Return(ChatResult("abort_after_tool", Null, toolsUsed, TRUE,
                                     trackerParts))
                /\ UNCHANGED <<pendingDiffFiles, pendingDiffEdits, trackerParts,
                               loop, ti>>
           ELSE /\ pendingDiffFiles' = IF ex.out.hasDiff
                                       THEN MapSetAll(pendingDiffFiles, ex.out.diffFiles)
                                       ELSE pendingDiffFiles
                /\ pendingDiffEdits' = IF ex.out.hasDiff
                                       THEN MapSetAll(pendingDiffEdits,
                                                      NormalizedEdits(tc.args.edits))
                                       ELSE pendingDiffEdits
                /\ trackerParts' = trackerParts + 1
                /\ loop' = PushToolMessage(loop, tc, ex.out.result)
                /\ ti' = ti + 1
                /\ pc' = "tool"
                /\ UNCHANGED result
  /\ UNCHANGED <<configEnabled, messages, round, resp, toolsUsed,
                 proposeEditsAttempt, aborted, base, devUsed, llmCalls,
                 startedAfterAbort, valVars, extVars>>

\* continue: every tool call of the turn is answered
NextRound ==
  /\ pc = "tool" /\ ti > Len(resp.tool_calls)
  /\ round' = round + 1
  /\ pc' = "round"
  /\ UNCHANGED <<configEnabled, messages, loop, resp, ti, toolsUsed,
                 proposeEditsAttempt, pendingDiffFiles, pendingDiffEdits,
                 trackerParts, aborted, result, base, devUsed, llmCalls,
                 startedAfterAbort, flushes, events, proposeLog, validations, executed, lastExec,
                 files, valVars, extVars>>

\* the user cancels: before the call, or while a request or a tool is pending
Abort ==
  /\ pc \in {"start", "llm", "toolrun"}
  /\ ~aborted
  /\ aborted' = TRUE
  /\ UNCHANGED <<pc, configEnabled, messages, loop, round, resp, ti, toolsUsed,
                 proposeEditsAttempt, pendingDiffFiles, pendingDiffEdits,
                 trackerParts, result, base, devUsed, llmCalls,
                 startedAfterAbort, flushes, events, proposeLog, validations, executed, lastExec,
                 files, valVars, extVars>>

Next ==
  \/ StartDisabled
  \/ Start
  \/ BeginRound
  \/ HitMaxRounds
  \/ LLMNull
  \/ LLMToolCalls
  \/ LLMFinal
  \/ ToolStart
  \/ ToolArgsThrow
  \/ ToolFinish
  \/ NextRound
  \/ Abort

Spec == Init /\ [][Next]_vars

(* ------------------------------------------------------------------ *)
(* SpecVal: one runValidation call                                      *)
(* ------------------------------------------------------------------ *)
ValContents == {"x", "y"}

ValEdits == {Edit(p, c) : p \in {"a.ts", "lib/a.ts", "lib\\a.ts"}, c \in ValContents}

RECURSIVE SeqsUpTo(_, _)
SeqsUpTo(S, n) ==
  IF n = 0 THEN {<<>>}
  ELSE LET shorter == SeqsUpTo(S, n - 1)
       IN shorter \cup {Append(q, e) : q \in {r \in shorter : Len(r) = n - 1}, e \in S}

\* a workspace, an edit list and the write that fails (0: none), before the call
InitVal ==
  /\ LoopIdle
  /\ ExtIdle
  /\ files \in [Paths -> {Absent, "orig"}]
  /\ vFiles0 = files
  /\ vEdits \in SeqsUpTo(ValEdits, MaxEdits)
  /\ vFailAt \in 0..Len(vEdits)
  /\ vThrew = FALSE
  /\ vReport = NoReport
  /\ vPc = "ready"

\* runValidation(workspaceUri, edits, options) from its first line to the
\* end of its finally block
ValidationCall ==
  /\ vPc = "ready"
  /\ \E hasCommands \in BOOLEAN, cmdFails \in BOOLEAN :
       LET rv == RunValidation(files, vEdits, vFailAt, hasCommands, cmdFails)
       IN /\ files' = rv.fs
          /\ vThrew' = rv.threw
          /\ vReport' = [hasCommands |-> hasCommands, cmdFails |-> cmdFails,
                         hasErrors |-> rv.hasErrors]
          /\ vPc' = IF rv.threw THEN "threw" ELSE "returned"
  /\ UNCHANGED <<loopVars, vFiles0, vEdits, vFailAt, extVars>>

NextVal == ValidationCall

SpecVal == InitVal /\ [][NextVal]_vars

(* ------------------------------------------------------------------ *)
(* Claims                                                               *)
(* ------------------------------------------------------------------ *)
ValDone == vPc \in {"returned", "threw"}

EditedPaths == {NormalizePath(vEdits[i].path) : i \in 1..Len(vEdits)}

\* C1: after runValidation returns or throws, every file named in the edit
\* set has exactly its pre-call content, and a file that did not exist before
\* the call does not exist afterwards.
C1_ValidationAtomic ==
  ValDone => \A p \in EditedPaths : files[p] = vFiles0[p]

Done == pc = "done"

CancelExits == {"abort_round", "abort_llm", "abort_before_tool", "abort_after_tool"}

\* C2: one chatWithTools invocation makes at most 20 LLM calls and returns a
\* ChatResult without throwing, whatever the LLM answers.
C2_BoundedAndNoThrow ==
  /\ llmCalls <= MAX_TOOL_ROUNDS
  /\ pc # "thrown"

\* C3: once the abort signal is set, no LLM request and no tool execution is
\* started any more, and the invocation returns a result with content null.
C3_AbortStopsLoop ==
  /\ ~startedAfterAbort
  /\ (aborted /\ Done) => result.content = Null

C3_Witness ==
  /\ Done /\ aborted /\ result.exit = "abort_after_tool"
  /\ executed # <<>> /\ round > 0

\* indexes of the assistant turns of lp that request tools
ToolTurns(lp) == {k \in 1..Len(lp) : lp[k].role = "assistant" /\ lp[k].tool_calls # <<>>}

\* the first n calls of the turn at k are answered, in order, right after it
Answered(lp, k, n) ==
  /\ k + n <= Len(lp)
  /\ \A j \in 1..n : /\ lp[k + j].role = "tool"
                     /\ lp[k + j].tool_call_id = lp[k].tool_calls[j].id

\* the executions of the current turn: start 1, finish 1, start 2, finish 2, ...
Sequential(ev, calls, finished, running) ==
  /\ Len(ev) = 2 * finished + (IF running THEN 1 ELSE 0)
  /\ \A j \in 1..finished : /\ ev[2 * j - 1] = <<"start", calls[j].id>>
                            /\ ev[2 * j] = <<"finish", calls[j].id>>
  /\ running => ev[2 * finished + 1] = <<"start", calls[finished + 1].id>>

\* C4: the tool calls of one response run one at a time in the order the LLM
\* returned them, and their tool messages follow the requesting assistant
\* message in that order, each with its call's tool_call_id, all of them
\* before the next LLM call.
C4_SequentialInOrder ==
  /\ pc = "llm" => \A k \in ToolTurns(loop) : Answered(loop, k, Len(loop[k].tool_calls))
  /\ pc \in {"tool", "toolrun"} =>
       LET turns == ToolTurns(loop)
           last  == CHOOSE k \in turns : \A j \in turns : j <= k
       IN /\ turns # {}
          /\ loop[last].tool_calls = resp.tool_calls
          /\ Len(loop) = last + (ti - 1)
          /\ Answered(loop, last, ti - 1)
          /\ \A k \in turns \ {last} : Answered(loop, k, Len(loop[k].tool_calls))
          /\ Sequential(events, resp.tool_calls, ti - 1, pc = "toolrun")

C4_Witness ==
  /\ pc = "llm" /\ round > 0
  /\ \E k \in ToolTurns(loop) : Len(loop[k].tool_calls) = 2

\* C5: onProposeEditsDiff is invoked at most once, and only when the loop
\* returns its final answer or hits the round cap: never while tool calls are
\* processed, never on cancellation or on a null LLM response.
C5_FlushOnceAtExit ==
  /\ Len(flushes) <= 1
  /\ flushes # <<>> =>
       /\ Done
       /\ result.exit \in {"final", "cap"}
       /\ flushes[1].at = result.exit

C5_Witness ==
  /\ Done /\ result.exit = "final" /\ Len(flushes) = 1
  /\ Len(proposeLog) >= 2

\* C6: each of the first five propose_edits calls of an invocation is
\* validated, and every later one is refused without writing any file.
C6_FirstFiveValidated ==
  \A k \in 1..Len(proposeLog) :
    IF k <= AttemptLimit
    THEN proposeLog[k].valid => proposeLog[k].validated
    ELSE proposeLog[k].refused /\ ~proposeLog[k].validated /\ ~proposeLog[k].changed

\* C7: registry execute never throws: an unknown name, unparsable arguments
\* and a throwing handler each give a textual error, and in the first two
\* cases no handler runs.
C7_ExecuteNeverThrows ==
  lastExec # NoExec =>
    /\ ~lastExec.threw
    /\ lastExec.name \notin Registered =>
         (lastExec.result = "unknown_tool" /\ ~lastExec.ranHandler)
    /\ (lastExec.name \in Registered /\ lastExec.kind = "badjson") =>
         (lastExec.result = "invalid_json" /\ ~lastExec.ranHandler)
    /\ lastExec.handlerThrew => lastExec.result = "handler_error"

C7_Witness ==
  /\ lastExec.handlerThrew /\ lastExec.result = "handler_error"
  /\ \E i \in 1..Len(loop) : loop[i].role = "tool" /\ loop[i].content = "handler_error"

\* C8: a null LLM response with the signal not set ends the invocation at
\* once: content null, toolsUsed the tools executed so far in execution
\* order, no further LLM call or tool execution.
C8_NullResponseReturns ==
  /\ (Done /\ resp.isNull /\ ~aborted /\ llmCalls > 0) => result.exit = "null_llm"
  /\ result.exit = "null_llm" =>
       /\ Done
       /\ result.content = Null
       /\ result.toolsUsed = executed
       /\ llmCalls = round + 1

C8_Witness ==
  /\ result.exit = "null_llm"
  /\ Len(executed) >= 2

\* the messages appended during this invocation
Produced == SubSeq(loop, Len(messages) + 1, Len(loop))

\* C9: at the round cap the returned content is the content of the last
\* assistant message the LLM produced during this invocation (never one of
\* the caller's history), or null when no such message had content.
C9_CapContentFromThisLoop ==
  result.exit = "cap" => result.content = LastAssistantContent(Produced)

\* C10: a null-content result carries tracker state exactly when the
\* invocation ended by cancellation.
C10_TrackerMarksCancel ==
  (Done /\ result.content = Null) =>
    (result.hasTracker <=> result.exit \in CancelExits)

\* the propose_edits calls of this invocation that returned a diffPayload
\* and kept an edit for path p
ProposalsFor(p) ==
  {i \in 1..Len(proposeLog) :
     \E j \in 1..Len(proposeLog[i].kept) : proposeLog[i].kept[j].path = p}

LastProposed(p) ==
  LET k == proposeLog[CHOOSE i \in ProposalsFor(p) : \A j \in ProposalsFor(p) : j <= i].kept
      at == {j \in 1..Len(k) : k[j].path = p}
  IN k[CHOOSE j \in at : \A l \in at : l <= j].content

\* the same over the files of the diffPayloads, keyed by the resolved path
DiffsFor(p) ==
  {i \in 1..Len(proposeLog) :
     \E j \in 1..Len(proposeLog[i].diff) : proposeLog[i].diff[j].path = p}

LastDiff(p) ==
  LET k == proposeLog[CHOOSE i \in DiffsFor(p) : \A j \in DiffsFor(p) : j <= i].diff
      at == {j \in 1..Len(k) : k[j].path = p}
  IN k[CHOOSE j \in at : \A l \in at : l <= j].proposedContent

Entries(list, p) == {i \in 1..Len(list) : list[i].path = p}

\* C35: in every flush each path proposed by the propose_edits calls of
\* the invocation has exactly one entry, in the files list and in the edits
\* list, and the entry holds the content of the last proposal for the path;
\* a path proposed only by an earlier call is still there.
C35_LastProposalWins ==
  \A n \in 1..Len(flushes) : \A p \in Paths :
    /\ DiffsFor(p) # {} =>
         \E i \in 1..Len(flushes[n].files) :
           /\ Entries(flushes[n].files, p) = {i}
           /\ flushes[n].files[i].proposedContent = LastDiff(p)
    /\ ProposalsFor(p) # {} =>
         \E i \in 1..Len(flushes[n].edits) :
           /\ Entries(flushes[n].edits, p) = {i}
           /\ flushes[n].edits[i].content = LastProposed(p)

\* C36: every edit handed to onProposeEditsDiff is one the handler accepted
\* and validated: it is no placeholder and the files list has an entry of the
\* same path with the same proposed content.
C36_OnlyValidatedEdits ==
  \A n \in 1..Len(flushes) : \A i \in 1..Len(flushes[n].edits) :
    LET e == flushes[n].edits[i]
    IN /\ ~IsPlaceholder(e.content)
       /\ \E j \in 1..Len(flushes[n].files) :
            /\ flushes[n].files[j].path = e.path
            /\ flushes[n].files[j].proposedContent = e.content

\* C38: one chatWithTools invocation runs runValidation at most five
\* times, whether propose_edits is called by the LLM or run as a step of a
\* composite tool.
C38_AtMostFiveValidations == validations <= AttemptLimit

(* ------------------------------------------------------------------ *)
(* SpecHttp: one chatCompletion call (llm/provider.ts)                  *)
(* ------------------------------------------------------------------ *)
RETRYABLE_HTTP == {429, 500, 502, 503, 504}

MAX_RETRIES == 3

RETRY_BASE_MS == 2000

\* HTTP statuses the endpoint may answer with (res.ok is false)
ErrorStatuses == {400, 401, 404} \cup RETRYABLE_HTTP

\* what the text of an error response (or of a parse error message) contains:
\* nothing special, one of the words isRetryableError looks for
\* (fetch failed, network, econnreset, etimedout), or the word abort
BodyKinds == {"plain", "network", "abort"}

Outcome(kind, status, body) == [kind |-> kind, status |-> status, body |-> body]

\* the ways one fetch + body read can end while the signal is not aborted
LiveOutcomes ==
  {Outcome(k, 0, "plain") : k \in {"ok_content", "ok_tools", "ok_empty",
                                   "network", "other"}}
    \cup {Outcome("http", st, b) : st \in ErrorStatuses, b \in BodyKinds}
    \cup {Outcome("badjson", 0, b) : b \in BodyKinds}

\* fetch (or the body read) rejects with an AbortError
AbortOutcome == Outcome("abort", 0, "abort")

\* the Error the catch block sees: new Error(`${res.status}: ${errText}`) for
\* a non-ok response, the rejection of fetch / res.json() otherwise
ErrorOf(o) ==
  [name      |-> IF o.kind = "abort" THEN "AbortError" ELSE "Error",
   status    |-> IF o.kind = "http" THEN o.status ELSE 0,
   keyword   |-> o.kind = "network" \/ (o.kind \in {"http", "badjson"} /\ o.body = "network"),
   abortWord |-> o.kind = "abort" \/ (o.kind \in {"http", "badjson"} /\ o.body = "abort")]

IsAbortError(err) == err.name = "AbortError" \/ err.abortWord

\* isRetryableError: abort first, then the network words anywhere in the
\* message, then the leading "NNN:" status
IsRetryableError(err) ==
  IF IsAbortError(err) THEN FALSE
  ELSE IF err.keyword THEN TRUE
  ELSE IF err.status # 0 THEN err.status \in RETRYABLE_HTTP
  ELSE FALSE

RECURSIVE Pow2(_)
Pow2(n) == IF n = 0 THEN 1 ELSE 2 * Pow2(n - 1)

\* RETRY_BASE_MS * Math.pow(2, attempt)
RetryDelay(attempt) == RETRY_BASE_MS * Pow2(attempt)

\* options?.signal?.aborted at the top of the retry loop
ProviderAbortIgnored(sig) == FALSE

ProviderAborted(sig) == sig

\* does chatCompletion wait and try again after this outcome?
Retries(o, attempt) ==
  \/ o.kind = "http" /\ o.status \in RETRYABLE_HTTP /\ attempt < MAX_RETRIES
  \/ o.kind \notin {"ok_content", "ok_tools", "ok_empty"}
       /\ IsRetryableError(ErrorOf(o)) /\ attempt < MAX_RETRIES

InitHttp ==
  /\ LoopIdle /\ ValIdle /\ IdxIdle /\ IdeIdle /\ files = LoopFiles
  /\ hPc = "call" /\ hAttempt = 0 /\ hAborted = FALSE /\ hRequests = 0
  /\ hLast = NoOutcome /\ hDelay = 0 /\ hResult = "none"
  /\ hSentAfterAbort = FALSE

httpFrame == <<loopVars, files, valVars, idxVars, ideVars>>

\* chatCompletion is entered: url, headers and body are built
HttpCall ==
  /\ hPc = "call"
  /\ hPc' = "top"
  /\ UNCHANGED <<hAttempt, hAborted, hRequests, hLast, hDelay, hResult,
                 hSentAfterAbort, httpFrame>>

\* top of the for loop: the abort check, then fetch is issued
HttpLoopTop ==
  /\ hPc = "top"
  /\ IF hAttempt > MAX_RETRIES \/ ProviderAborted(hAborted)
     THEN /\ hPc' = "done" /\ hResult' = "null"
          /\ UNCHANGED <<hRequests, hSentAfterAbort>>
     ELSE /\ hPc' = "fetch"
          /\ hRequests' = hRequests + 1
          /\ hSentAfterAbort' = (hSentAfterAbort \/ hAborted)
          /\ UNCHANGED hResult
  /\ UNCHANGED <<hAttempt, hAborted, hLast, hDelay, httpFrame>>

OutcomesNow == IF hAborted THEN {AbortOutcome} ELSE LiveOutcomes

\* a 2xx response whose body parses: content, tool calls, or null when the
\* message has neither
HttpSuccess ==
  /\ hPc = "fetch"
  /\ \E o \in OutcomesNow :
       /\ o.kind \in {"ok_content", "ok_tools", "ok_empty"}
       /\ hLast' = o
       /\ hResult' = IF o.kind = "ok_content" THEN "content"
                     ELSE IF o.kind = "ok_tools" THEN "tools" ELSE "null"
  /\ hPc' = "done"
  /\ UNCHANGED <<hAttempt, hAborted, hRequests, hDelay, hSentAfterAbort, httpFrame>>

\* a failure after which the call sleeps RetryDelay(attempt) and continues
HttpFailRetry ==
  /\ hPc = "fetch"
  /\ \E o \in OutcomesNow :
       /\ Retries(o, hAttempt)
       /\ hLast' = o
  /\ hDelay' = RetryDelay(hAttempt)
  /\ hPc' = "sleep"
  /\ UNCHANGED <<hAttempt, hAborted, hRequests, hResult, hSentAfterAbort, httpFrame>>

\* a failure after which the call returns null
HttpFailReturn ==
  /\ hPc = "fetch"
  /\ \E o \in OutcomesNow :
       /\ o.kind \notin {"ok_content", "ok_tools", "ok_empty"}
       /\ ~Retries(o, hAttempt)
       /\ hLast' = o
  /\ hResult' = "null"
  /\ hPc' = "done"
  /\ UNCHANGED <<hAttempt, hAborted, hRequests, hDelay, hSentAfterAbort, httpFrame>>

\* the backoff timer fires: continue with attempt + 1
HttpWake ==
  /\ hPc = "sleep"
  /\ hAttempt' = hAttempt + 1
  /\ hDelay' = 0
  /\ hPc' = "top"
  /\ UNCHANGED <<hAborted, hRequests, hLast, hResult, hSentAfterAbort, httpFrame>>

\* the signal is aborted: before the call, during a request or during a wait
HttpAbort ==
  /\ hPc \in {"call", "fetch", "sleep"}
  /\ ~hAborted
  /\ hAborted' = TRUE
  /\ UNCHANGED <<hPc, hAttempt, hRequests, hLast, hDelay, hResult,
                 hSentAfterAbort, httpFrame>>

NextHttp ==
  \/ HttpCall
  \/ HttpLoopTop
  \/ HttpSuccess
  \/ HttpFailRetry
  \/ HttpFailReturn
  \/ HttpWake
  \/ HttpAbort

SpecHttp == InitHttp /\ [][NextHttp]_vars

HttpDone == hPc = "done"

Failed(o) == o.kind \in {"http", "network", "other", "badjson", "abort"}

\* a retryable HTTP status or a retryable network error
RetryableFailure(o) ==
  \/ o.kind = "http" /\ o.status \in RETRYABLE_HTTP
  \/ o.kind = "network"

\* C11: chatCompletion sends at most 4 requests; it retries only after a
\* retryable HTTP status or a retryable network error; the wait before the
\* k-th retry is 2000 * 2^(k-1) ms; when the last allowed attempt fails too
\* it returns null.
C11_BoundedBackoff ==
  /\ hRequests <= MAX_RETRIES + 1
  /\ hPc = "sleep" => /\ RetryableFailure(hLast)
                      /\ hDelay = 2000 * Pow2((hAttempt + 1) - 1)
  /\ (HttpDone /\ hRequests = MAX_RETRIES + 1 /\ Failed(hLast)) => hResult = "null"

\* C12: a failure caused by the abort signal is never retried, no request is
\* issued once the signal is aborted (also when it is aborted during a
\* backoff wait), and the call returns null.
C12_AbortNotRetried ==
  /\ ~hSentAfterAbort
  /\ hLast.kind = "abort" => (HttpDone /\ hResult = "null")
  /\ (hAborted /\ HttpDone) => hResult = "null"

C12_Witness ==
  /\ HttpDone /\ hAborted /\ hResult = "null"
  /\ hAttempt >= 1 /\ hRequests = hAttempt /\ hLast.kind # "abort"

\* a failure that is neither a retryable status nor a retryable network error
NonRetryableFailure(o) == Failed(o) /\ o.kind # "abort" /\ ~RetryableFailure(o)

\* C13: a failure that is neither a retryable HTTP status nor a retryable
\* network error (HTTP 400, 401, 404 whatever the body says, a body that is
\* not JSON) is not retried: null after exactly that one request.
C13_OtherErrorsNotRetried ==
  NonRetryableFailure(hLast) =>
    /\ HttpDone
    /\ hResult = "null"
    /\ hRequests = hAttempt + 1

(* ------------------------------------------------------------------ *)
(* SpecFilter: the usefulness filter of the indexer (indexer/index.ts)  *)
(* ------------------------------------------------------------------ *)
\* metadata.lines of the entries tried
FilterLines == {2, 3, 10, 14, 15, 20}

FilterPatterns == {"other", "test", "page"}

\* the entries tried: extractEntry's symbol lists by their lengths
FilterEntries ==
  [lines : FilterLines, pattern : FilterPatterns, imports : {<<>>, <<"./y">>},
   exports : 0..1, functions : 0..1, classes : 0..1, hooks : 0..1]

HasSymbols(entry) ==
  \/ Len(entry.imports) > 0
  \/ entry.exports > 0
  \/ entry.functions > 0
  \/ entry.classes > 0
  \/ entry.hooks > 0

\* keeps the files of fewer than 3 lines
IsUsefulEntryNoMinimum(entry) ==
  IF entry.pattern = "test" THEN FALSE
  ELSE IF entry.pattern = "other" /\ ~HasSymbols(entry) /\ entry.lines < 15 THEN FALSE
  ELSE TRUE

\* drops every pattern 'other' file without symbols, whatever its length
IsUsefulEntryAnyLength(entry) ==
  IF entry.lines < 3 THEN FALSE
  ELSE IF entry.pattern = "test" THEN FALSE
  ELSE IF entry.pattern = "other" /\ ~HasSymbols(entry) THEN FALSE
  ELSE TRUE

IsUsefulEntry(entry) ==
  IF entry.lines < 3 THEN FALSE
  ELSE IF entry.pattern = "test" THEN FALSE
  ELSE IF entry.pattern = "other" /\ ~HasSymbols(entry) /\ entry.lines < 15 THEN FALSE
  ELSE TRUE

filterFrame == <<loopVars, files, valVars, httpVars, weightVars, resolveVars,
                 indexVars, ideVars>>

InitFilter ==
  /\ LoopIdle /\ ValIdle /\ HttpIdle /\ WeightsIdle /\ ResolveIdle /\ IndexIdle
  /\ IdeIdle
  /\ files = LoopFiles
  /\ uEntry \in FilterEntries
  /\ uUseful = "none"

FilterApply ==
  /\ uUseful = "none"
  /\ uUseful' = IF IsUsefulEntry(uEntry) THEN "yes" ELSE "no"
  /\ UNCHANGED <<uEntry, filterFrame>>

NextFilter == FilterApply

SpecFilter == InitFilter /\ [][NextFilter]_vars

OnlyExport(entry) ==
  /\ entry.exports = 1 /\ Len(entry.imports) = 0
  /\ entry.functions = 0 /\ entry.classes = 0 /\ entry.hooks = 0

\* C17 as stated: the filter excludes a 2-line file, excludes a 20-line
\* pattern 'other' file with no extracted symbols, and includes a 20-line
\* pattern 'other' file that has one export.
C17_AsStated ==
  uUseful # "none" =>
    /\ uEntry.lines = 2 => uUseful = "no"
    /\ (uEntry.lines = 20 /\ uEntry.pattern = "other" /\ ~HasSymbols(uEntry))
         => uUseful = "no"
    /\ (uEntry.lines = 20 /\ uEntry.pattern = "other" /\ OnlyExport(uEntry))
         => uUseful = "yes"

\* C17 (amended): the filter excludes a 2-line file, excludes a pattern
\* 'other' file with no extracted symbols only when it has fewer than 15
\* lines (a 10-line one is excluded, a 20-line one is included), and
\* includes a 20-line pattern 'other' file that has one export.
C17_FilterExamples ==
  uUseful # "none" =>
    /\ uEntry.lines = 2 => uUseful = "no"
    /\ (uEntry.lines = 10 /\ uEntry.pattern = "other" /\ ~HasSymbols(uEntry))
         => uUseful = "no"
    /\ (uEntry.lines = 20 /\ uEntry.pattern = "other" /\ ~HasSymbols(uEntry))
         => uUseful = "yes"
    /\ (uEntry.lines = 20 /\ uEntry.pattern = "other" /\ OnlyExport(uEntry))
         => uUseful = "yes"

C17_Witness ==
  /\ uUseful = "yes"
  /\ uEntry.lines = 20 /\ uEntry.pattern = "other" /\ ~HasSymbols(uEntry)

(* ------------------------------------------------------------------ *)
(* Pattern relations of the graph (indexer/pattern-graph.ts)            *)
(* Raw weights are counted in fiftieths, so that an import (1), a       *)
(* same-domain pair (0.3) and the 0.8 mirror stay whole numbers;        *)
(* normalized weights are counted in hundredths, as Math.round(.. *100) *)
(* leaves them.                                                         *)
(* ------------------------------------------------------------------ *)
\* relationMap += 1 for an import that resolves to a file of another pattern
ImportWeight == 50

\* relationMap += 0.3 for a file of the same domain and another pattern
SameDomainWeight == 15

\* const minWeight = 0.05
MinWeight == 5

PatternRelation(from, to, weight) == [from |-> from, to |-> to, weight |-> weight]

\* for (pattern in graph.patterns) for (to in graph.patterns[pattern]):
\* the relations grouped by their from key, keys in insertion order
RECURSIVE IterationOrder(_)
IterationOrder(rels) ==
  IF rels = <<>> THEN <<>>
  ELSE LET SameFrom(r) == r.from = rels[1].from
           OtherFrom(r) == r.from # rels[1].from
       IN SelectSeq(rels, SameFrom) \o IterationOrder(SelectSeq(rels, OtherFrom))

PatternsOf(rels) ==
  {rels[i].from : i \in 1..Len(rels)} \cup {rels[i].to : i \in 1..Len(rels)}

\* symmetric[pattern][to] = w; symmetric[to][pattern] = (.. || 0) + w * 0.8
RECURSIVE Symmetrize(_, _)
Symmetrize(sym, rels) ==
  IF rels = <<>> THEN sym
  ELSE LET r  == rels[1]
           s1 == [sym EXCEPT ![<<r.from, r.to>>] = r.weight]
           s2 == [s1 EXCEPT ![<<r.to, r.from>>] = @ + (r.weight * 4) \div 5]
       IN Symmetrize(s2, Tail(rels))

\* the symmetric map of the relations; 0 stands for a key that is not set
Symmetric(rels) ==
  Symmetrize([pq \in PatternsOf(rels) \X PatternsOf(rels) |-> 0],
             IterationOrder(rels))

InnerKeys(sym, p, ps) == {q \in ps : sym[<<p, q>>] > 0}

MaxWeight(sym, p, ps) ==
  IF InnerKeys(sym, p, ps) = {} THEN 0
  ELSE CHOOSE m \in {sym[<<p, q>>] : q \in InnerKeys(sym, p, ps)} :
         \A q \in InnerKeys(sym, p, ps) : sym[<<p, q>>] <= m

\* Math.round((x / max) * 100), in hundredths
Normalized(x, max) == (200 * x + max) \div (2 * max)

\* keeps every weight, however small
BelowFloorNever(w) == FALSE

\* if (w < minWeight) delete
BelowFloor(w) == w < MinWeight

KeptKeys(sym, p, ps) ==
  {q \in InnerKeys(sym, p, ps) :
     ~BelowFloor(Normalized(sym[<<p, q>>], MaxWeight(sym, p, ps)))}

Min(a, b) == IF a < b THEN a ELSE b

NormalizedRow(sym, p, ps) ==
  [q \in KeptKeys(sym, p, ps) |->
     Min(100, Normalized(sym[<<p, q>>], MaxWeight(sym, p, ps)))]

\* buildGraphFromIndex: the patterns with max 0 or no key left are collected
\* in emptyPatterns and deleted after the loop
BuildPatterns(rels) ==
  LET ps  == PatternsOf(rels)
      sym == Symmetric(rels)
      outer == {p \in ps : InnerKeys(sym, p, ps) # {}}
      emptyPatterns == {p \in outer : MaxWeight(sym, p, ps) = 0
                                       \/ KeptKeys(sym, p, ps) = {}}
  IN [p \in outer \ emptyPatterns |-> NormalizedRow(sym, p, ps)]

\* updateGraphForFiles: the same computation, a pattern with max 0 or no key
\* left is deleted inside the loop
UpdatePatterns(rels) ==
  LET ps  == PatternsOf(rels)
      sym == Symmetric(rels)
      outer == {p \in ps : InnerKeys(sym, p, ps) # {}}
  IN [p \in {o \in outer : MaxWeight(sym, o, ps) # 0 /\ KeptKeys(sym, o, ps) # {}}
        |-> NormalizedRow(sym, p, ps)]

(* ------------------------------------------------------------------ *)
(* SpecWeights: the pattern map computed from bounded relation lists    *)
(* ------------------------------------------------------------------ *)
\* relations of one list
MaxRels == 3

WPatterns == {"page", "service", "utils"}

\* imports counted on one pattern pair
ImportCounts == {1, 2, 20}

RawRelations ==
  {r \in {PatternRelation(f, t, n * ImportWeight) :
            f \in WPatterns, t \in WPatterns, n \in ImportCounts} : r.from # r.to}

\* relationMap has one entry per from->to key
DistinctKeys(rels) ==
  \A i, j \in 1..Len(rels) :
    (rels[i].from = rels[j].from /\ rels[i].to = rels[j].to) => i = j

weightsFrame == <<loopVars, files, valVars, httpVars, filterVars, resolveVars,
                 indexVars, ideVars>>

InitWeights ==
  /\ LoopIdle /\ ValIdle /\ HttpIdle /\ FilterIdle /\ ResolveIdle /\ IndexIdle
  /\ IdeIdle
  /\ files = LoopFiles
  /\ wRels \in {rels \in SeqsUpTo(RawRelations, MaxRels) : DistinctKeys(rels)}
  /\ wPatterns = NoPatterns
  /\ wVia = "none"

WeightsBuild ==
  /\ wVia = "none"
  /\ wPatterns' = BuildPatterns(wRels)
  /\ wVia' = "build"
  /\ UNCHANGED <<wRels, weightsFrame>>

WeightsUpdate ==
  /\ wVia = "none"
  /\ wPatterns' = UpdatePatterns(wRels)
  /\ wVia' = "update"
  /\ UNCHANGED <<wRels, weightsFrame>>

NextWeights ==
  \/ WeightsBuild
  \/ WeightsUpdate

SpecWeights == InitWeights /\ [][NextWeights]_vars

HasEdge(g, a, b) == a \in DOMAIN g /\ b \in DOMAIN g[a]

OtherEdges(rels, b, a) ==
  InnerKeys(Symmetric(rels), b, PatternsOf(rels)) \ {a} # {}

\* C20: in the normalized pattern graph every edge A->B has a reverse edge
\* B->A with a positive weight, unless B has no other edge to normalize
\* against.
C20_Symmetry ==
  wVia # "none" =>
    \A a \in DOMAIN wPatterns : \A b \in DOMAIN wPatterns[a] :
      \/ HasEdge(wPatterns, b, a) /\ wPatterns[b][a] > 0
      \/ ~OtherEdges(wRels, b, a)

(* ------------------------------------------------------------------ *)
(* Import resolution and file relations (indexer/pattern-graph.ts)      *)
(* A path is the sequence of its segments, a segment the sequence of    *)
(* its stem and extensions: a/y.ts is <<<<"a">>, <<"y", ".ts">>>>.      *)
(* An import specifier is written the same way: ./y is                  *)
(* <<<<".">>, <<"y">>>>.                                               *)
(* ------------------------------------------------------------------ *)
\* null: no file
NoFile == <<>>

AX == <<(<<"a">>), (<<"x", ".ts">>)>>

AY == <<(<<"a">>), (<<"y", ".ts">>)>>

RootMain == <<(<<"main", ".ts">>)>>

RootUtil == <<(<<"util", ".ts">>)>>

\* importPath.startsWith('.')
IsRelative(imp) == imp # <<>> /\ imp[1][1] \in {".", ".."}

\* all segments but the last
Front(path) == SubSeq(path, 1, Len(path) - 1)

\* importerFile.replace(/\/[^/]+$/, ''): strips the last segment, but only
\* when a slash precedes it
ImporterDir(importer) ==
  IF Len(importer) >= 2 THEN Front(importer) ELSE importer

\* if (seg === '..') parts.pop(); else if (seg !== '.') parts.push(seg)
RECURSIVE Navigate(_, _)
Navigate(parts, segs) ==
  IF segs = <<>> THEN parts
  ELSE IF segs[1] = <<"..">>
       THEN Navigate(IF parts = <<>> THEN parts ELSE Front(parts), Tail(segs))
  ELSE IF segs[1] = <<".">> THEN Navigate(parts, Tail(segs))
  ELSE Navigate(Append(parts, segs[1]), Tail(segs))

\* resolved + ext
WithExt(resolved, ext) ==
  IF resolved = <<>> THEN <<(<<"", ext>>)>>
  ELSE [resolved EXCEPT ![Len(resolved)] = Append(@, ext)]

\* resolved + '/index' + ext
WithIndex(resolved, ext) ==
  IF resolved = <<>> THEN <<(<<"">>), (<<"index", ext>>)>>
  ELSE Append(resolved, <<"index", ext>>)

Candidates(resolved) ==
  <<resolved,
    WithExt(resolved, ".ts"), WithExt(resolved, ".tsx"), WithExt(resolved, ".js"),
    WithExt(resolved, ".jsx"), WithExt(resolved, ".vue"),
    WithIndex(resolved, ".ts"), WithIndex(resolved, ".tsx"),
    WithIndex(resolved, ".js"), WithIndex(resolved, ".jsx")>>

\* for (const c of candidates) if (fileSet.has(c)) return c; return null
FirstIn(seq, fileSet) ==
  LET hits == {i \in 1..Len(seq) : seq[i] \in fileSet}
  IN IF hits = {} THEN NoFile
     ELSE seq[CHOOSE i \in hits : \A j \in hits : i <= j]

\* the last segment without its final extension
BaseOf(path) == path[Len(path)][1]

\* fileSeq: the keys of fileSet in insertion order
ResolveImportToFile(imp, importer, fileSeq) ==
  LET fileSet == {fileSeq[i] : i \in 1..Len(fileSeq)}
  IN IF IsRelative(imp)
     THEN FirstIn(Candidates(Navigate(ImporterDir(importer), imp)), fileSet)
     ELSE LET same == {i \in 1..Len(fileSeq) : BaseOf(fileSeq[i]) = BaseOf(imp)}
          IN IF imp = <<>> \/ same = {} THEN NoFile
             ELSE fileSeq[CHOOSE i \in same : \A j \in same : i <= j]

\* GraphNode
GraphNode(file, pattern, domain, imports) ==
  [file |-> file, pattern |-> pattern, domain |-> domain, imports |-> imports]

NodeFiles(nodes) == [i \in 1..Len(nodes) |-> nodes[i].file]

\* the related Set of one node, in insertion order
RECURSIVE Related(_, _, _, _)
Related(node, imports, fileSeq, acc) ==
  IF imports = <<>> THEN acc
  ELSE LET target == ResolveImportToFile(imports[1], node.file, fileSeq)
           seen   == {acc[i] : i \in 1..Len(acc)}
       IN Related(node, Tail(imports), fileSeq,
                  IF target # NoFile /\ target # node.file /\ target \notin seen
                  THEN Append(acc, target) ELSE acc)

NodeByFile(nodes, file) ==
  nodes[CHOOSE i \in 1..Len(nodes) : nodes[i].file = file]

\* [...related].slice(0, 15)
FirstFifteen(seq) == SubSeq(seq, 1, IF Len(seq) < 15 THEN Len(seq) ELSE 15)

\* graph.files: an entry for every node whose related set is not empty
FileRelations(nodes) ==
  LET fileSeq == NodeFiles(nodes)
      rel(i)  == Related(nodes[i], nodes[i].imports, fileSeq, <<>>)
      withRel == {i \in 1..Len(nodes) : rel(i) # <<>>}
  IN [f \in {nodes[i].file : i \in withRel} |->
        LET i == CHOOSE k \in withRel : nodes[k].file = f
        IN [relatedFiles    |-> FirstFifteen(rel(i)),
            relatedPatterns |-> {NodeByFile(nodes, rel(i)[k]).pattern :
                                   k \in 1..Len(rel(i))}]]

(* ------------------------------------------------------------------ *)
(* SpecResolve: file relations of a bounded index                       *)
(* ------------------------------------------------------------------ *)
\* imports of the importing file
MaxImports == 2

RPaths == {AX, AY, RootMain, RootUtil}

\* ./y  ../missing  ./util  ../a/y  ../../a/y  lib/y  ./y.ts
RSpecifiers ==
  { <<(<<".">>), (<<"y">>)>>,
    <<(<<"..">>), (<<"missing">>)>>,
    <<(<<".">>), (<<"util">>)>>,
    <<(<<"..">>), (<<"a">>), (<<"y">>)>>,
    <<(<<"..">>), (<<"..">>), (<<"a">>), (<<"y">>)>>,
    <<(<<"lib">>), (<<"y">>)>>,
    <<(<<".">>), (<<"y", ".ts">>)>> }

\* detectPattern of the paths used
RPattern(path) ==
  IF path = AX THEN "page"
  ELSE IF path = AY THEN "service"
  ELSE IF path = RootUtil THEN "utils"
  ELSE "other"

\* detectDomain of the paths used
RDomain(path) == IF path = RootUtil THEN "util" ELSE "global"

\* the orders in which the files of a set can be keys of the index
Orders(S) ==
  {q \in SeqsUpTo(S, Cardinality(S)) :
     Len(q) = Cardinality(S) /\ \A i, j \in 1..Len(q) : q[i] = q[j] => i = j}

resolveFrame == <<loopVars, files, valVars, httpVars, filterVars, weightVars,
                 indexVars, ideVars>>

\* an index in which one file has imports
InitResolve ==
  /\ LoopIdle /\ ValIdle /\ HttpIdle /\ FilterIdle /\ WeightsIdle /\ IndexIdle
  /\ IdeIdle
  /\ files = LoopFiles
  /\ \E S \in SUBSET RPaths : \E order \in Orders(S) :
       \E importer \in S \cup {NoFile} :
         \E imports \in SeqsUpTo(RSpecifiers, MaxImports) :
           /\ importer = NoFile => imports = <<>>
           /\ rIndex = [i \in 1..Len(order) |->
                          GraphNode(order[i], RPattern(order[i]), RDomain(order[i]),
                                    IF order[i] = importer THEN imports ELSE <<>>)]
  /\ rFiles = NoRelations
  /\ rBuilt = FALSE

\* buildGraphFromIndex, its file-level relations
ResolveBuild ==
  /\ ~rBuilt
  /\ rBuilt' = TRUE
  /\ rFiles' = FileRelations(rIndex)
  /\ UNCHANGED <<rIndex, resolveFrame>>

NextResolve == ResolveBuild

SpecResolve == InitResolve /\ [][NextResolve]_vars

\* what a relative specifier names: . and .. navigated from the directory of
\* the importing file (leaving the workspace names nothing), then the first
\* candidate that is indexed
Outside == <<(<<"..">>)>>

RECURSIVE Walk(_, _)
Walk(dir, segs) ==
  IF segs = <<>> THEN dir
  ELSE IF dir = Outside THEN Outside
  ELSE IF segs[1] = <<"..">>
       THEN Walk(IF dir = <<>> THEN Outside ELSE Front(dir), Tail(segs))
  ELSE IF segs[1] = <<".">> THEN Walk(dir, Tail(segs))
  ELSE Walk(Append(dir, segs[1]), Tail(segs))

Named(imp, importer, fileSet) ==
  IF IsRelative(imp)
  THEN LET at == Walk(Front(importer), imp)
       IN IF at = Outside \/ at = <<>> THEN {}
          ELSE LET c    == Candidates(at)
                   hits == {i \in 1..Len(c) : c[i] \in fileSet}
               IN {c[i] : i \in {h \in hits : \A j \in hits : h <= j}}
  ELSE {f \in fileSet : BaseOf(f) = BaseOf(imp)}

RelatedOf(gfiles, file) ==
  IF file \in DOMAIN gfiles
  THEN {gfiles[file].relatedFiles[i] : i \in 1..Len(gfiles[file].relatedFiles)}
  ELSE {}

\* C18: in the built graph every import of an indexed file that resolves to
\* another indexed file yields a file-relation edge from the importer to
\* that file (a/x.ts importing ./y with a/y.ts indexed gives a/x.ts ->
\* a/y.ts); an import that resolves to no indexed file adds no edge.
C18_ImportEdges ==
  rBuilt =>
    LET fileSet == {rIndex[i].file : i \in 1..Len(rIndex)}
    IN \A i \in 1..Len(rIndex) :
         LET node == rIndex[i]
             imps == {node.imports[k] : k \in 1..Len(node.imports)}
         IN /\ \A imp \in imps :
                 Named(imp, node.file, fileSet) \ {node.file} # {}
                   => Named(imp, node.file, fileSet) \cap RelatedOf(rFiles, node.file) # {}
            /\ \A t \in RelatedOf(rFiles, node.file) :
                 \E imp \in imps : t \in Named(imp, node.file, fileSet)

(* ------------------------------------------------------------------ *)
(* The pattern graph of an index (indexer/pattern-graph.ts)             *)
(* An index is the sequence of its entries in key order.                *)
(* ------------------------------------------------------------------ *)
MAX_FILES_PER_PATTERN == 30

\* p.includes('/pb/') || p.includes('.pb.')
IsGeneratedOrPb(path) ==
  \/ \E i \in 2..(Len(path) - 1) : path[i] = <<"pb">>
  \/ \E k \in 2..(Len(path[Len(path)]) - 1) : path[Len(path)][k] = ".pb"

BuildNodes(index) == SelectSeq(index, LAMBDA e : ~IsGeneratedOrPb(e.file))

\* relationMap.set(key, (relationMap.get(key) || 0) + w)
RECURSIVE AddWeight(_, _, _, _)
AddWeight(rels, from, to, w) ==
  IF rels = <<>> THEN <<PatternRelation(from, to, w)>>
  ELSE IF rels[1].from = from /\ rels[1].to = to
       THEN <<PatternRelation(from, to, rels[1].weight + w)>> \o Tail(rels)
  ELSE <<rels[1]>> \o AddWeight(Tail(rels), from, to, w)

\* the imports of one node: + 1 for each that resolves to a file of another
\* pattern
RECURSIVE ImportRelations(_, _, _, _)
ImportRelations(rels, node, imports, nodes) ==
  IF imports = <<>> THEN rels
  ELSE LET target == ResolveImportToFile(imports[1], node.file, NodeFiles(nodes))
       IN ImportRelations(
            IF target # NoFile /\ target # node.file
               /\ NodeByFile(nodes, target).pattern # node.pattern
            THEN AddWeight(rels, node.pattern, NodeByFile(nodes, target).pattern,
                           ImportWeight)
            ELSE rels,
            node, Tail(imports), nodes)

\* sameDomain.slice(0, 10): + 0.3 each
RECURSIVE DomainRelations(_, _, _)
DomainRelations(rels, node, same) ==
  IF same = <<>> THEN rels
  ELSE DomainRelations(AddWeight(rels, node.pattern, same[1].pattern, SameDomainWeight),
                       node, Tail(same))

SameDomain(node, nodes) ==
  LET same == SelectSeq(nodes, LAMBDA n : /\ n.domain = node.domain
                                          /\ n.domain # "global"
                                          /\ n.file # node.file
                                          /\ n.pattern # node.pattern)
  IN SubSeq(same, 1, IF Len(same) < 10 THEN Len(same) ELSE 10)

\* detectRelations: patternRelations, in relationMap order
RECURSIVE PatternRelations(_, _, _)
PatternRelations(rels, todo, nodes) ==
  IF todo = <<>> THEN rels
  ELSE PatternRelations(
         DomainRelations(ImportRelations(rels, todo[1], todo[1].imports, nodes),
                         todo[1], SameDomain(todo[1], nodes)),
         Tail(todo), nodes)

\* filesByPattern: the files of each pattern in node order, 30 at most
FilesByPattern(nodes) ==
  [p \in {nodes[i].pattern : i \in 1..Len(nodes)} |->
     LET fs == NodeFiles(SelectSeq(nodes, LAMBDA n : n.pattern = p))
     IN SubSeq(fs, 1, IF Len(fs) < MAX_FILES_PER_PATTERN THEN Len(fs)
                      ELSE MAX_FILES_PER_PATTERN)]

\* pattern-graph.json; examples by the patterns it has an example for
Graph(now, patterns, byPattern, examples, gfiles) ==
  [exists |-> TRUE, generatedAt |-> now, patterns |-> patterns,
   filesByPattern |-> byPattern, examples |-> examples, files |-> gfiles]

BuildGraphFromIndex(index, now) ==
  LET nodes == BuildNodes(index)
  IN Graph(now,
           BuildPatterns(PatternRelations(<<>>, nodes, nodes)),
           FilesByPattern(nodes),
           {nodes[i].pattern : i \in 1..Len(nodes)},
           FileRelations(nodes))

\* the changed paths and the files with an import that resolves to one
Affected(nodes, changed) ==
  changed \cup
    {nodes[i].file : i \in {k \in 1..Len(nodes) :
        \E j \in 1..Len(nodes[k].imports) :
          ResolveImportToFile(nodes[k].imports[j], nodes[k].file, NodeFiles(nodes))
            \in changed \ {NoFile}}}

\* updateGraphForFiles on a graph file that exists; changed: changedRelPaths
UpdateGraph(existing, index, changed, now) ==
  LET nodes    == BuildNodes(index)
      indexed  == {index[i].file : i \in 1..Len(index)}
      affected == Affected(nodes, changed)
      rels     == FileRelations(nodes)
      kept     == DOMAIN existing.files \ affected
      added    == (affected \cap indexed) \cap DOMAIN rels
      affectedPatterns ==
        {index[i].pattern : i \in {k \in 1..Len(index) : index[k].file \in affected}}
  IN Graph(now,
           IF affectedPatterns # {}
           THEN UpdatePatterns(PatternRelations(<<>>, nodes, nodes))
           ELSE existing.patterns,
           FilesByPattern(nodes),
           existing.examples,
           [f \in kept \cup added |->
              IF f \in added THEN rels[f] ELSE existing.files[f]])

\* updateGraphForFiles: a full build when the graph file cannot be read
UpdateGraphForFiles(existing, index, changed, now) ==
  IF ~existing.exists THEN BuildGraphFromIndex(index, now)
  ELSE UpdateGraph(existing, index, changed, now)

(* ------------------------------------------------------------------ *)
(* SpecIndex: the index cache and its graph (indexer/index.ts)          *)
(* Each index function runs as one step; the workspace files change     *)
(* between the calls. A content hash is the content itself.             *)
(* ------------------------------------------------------------------ *)
\* index operations of one run
MaxOps == 2

\* modification times: 0 for a file as it was first seen, 1 once it has been
\* saved again
Mtimes == {0, 1}

SX == <<(<<"src">>), (<<"shop">>), (<<"x", ".ts">>)>>

SY == <<(<<"src">>), (<<"shop">>), (<<"y", ".ts">>)>>

NotesMd == <<(<<"src">>), (<<"shop">>), (<<"notes", ".md">>)>>

\* the source files of the workspace
IPaths == {SX, SY}

\* what a file may hold: a page importing ./y, a service, a two-line stub
ContentIds == {"page", "service", "stub"}

DiskFile(content, mtime) == [exists |-> TRUE, content |-> content, mtime |-> mtime]

\* a path with no file; mtime: when the path last changed
NoDiskFile == [exists |-> FALSE, content |-> "", mtime |-> 0]

\* EXTENSIONS: '**/*.ts', ... as the extension each glob asks for
EXTENSIONS == {".ts", ".tsx", ".js", ".jsx", ".vue", ".go", ".py"}

\* EXCLUDE: the globs of the form **/name/**
EXCLUDE_DIRS ==
  {"node_modules", "vendor", "dist", "build", ".git", ".next", ".nuxt", ".output",
   "__generated__", "out", ".code-index", ".finder-index", ".vscode", ".idea",
   "coverage", "pb"}

\* the file name ends with these parts: **/*.d.ts, **/*.min.js, **/*.min.css
EndsWith(name, parts) ==
  /\ Len(name) > Len(parts)
  /\ SubSeq(name, Len(name) - Len(parts) + 1, Len(name)) = parts

MatchesExclude(path) ==
  \/ \E i \in 1..(Len(path) - 1) : path[i][1] \in EXCLUDE_DIRS
  \/ EndsWith(path[Len(path)], <<".d", ".ts">>)
  \/ EndsWith(path[Len(path)], <<".min", ".js">>)
  \/ EndsWith(path[Len(path)], <<".min", ".css">>)

\* scanWorkspace returns the file at this path: findFiles(pattern, EXCLUDE)
\* for one of the patterns finds it and isPbOrGenerated is false
ScanIncludes(path) ==
  /\ Len(path[Len(path)]) >= 2
  /\ path[Len(path)][Len(path[Len(path)])] \in EXTENSIONS
  /\ ~MatchesExclude(path)
  /\ ~IsGeneratedOrPb(path)

INDEXED_EXT == {".ts", ".tsx", ".js", ".jsx", ".vue", ".go", ".py"}

\* EXCLUDED_PATH_PARTS of the form /name/
EXCLUDED_DIRS ==
  {"node_modules", "vendor", ".nuxt", ".output", "__generated__", "out",
   ".code-index", ".finder-index", ".vscode", ".idea", "coverage", "pb"}

\* the file name has this part followed by a part that begins with one of
\* these: path.includes('.d.ts') is true of x.d.ts and of x.d.tsx
HasDotted(name, part, nexts) ==
  \E k \in 2..(Len(name) - 1) : name[k] = part /\ name[k + 1] \in nexts

\* EXCLUDED_PATH_PARTS '.d.ts', '.min.js', '.min.css', '.pb.'
ExcludedNamePart(name) ==
  \/ HasDotted(name, ".d", {".ts", ".tsx"})
  \/ HasDotted(name, ".min", {".js", ".jsx"})
  \/ HasDotted(name, ".min", {".css"})
  \/ \E k \in 2..(Len(name) - 1) : name[k] = ".pb"

\* isIndexedFile: the extension list, then the excluded path parts. The test
\* is on the absolute path, so a directory at the workspace root has a slash
\* before it; the workspace root itself has none of the parts
IsIndexedFile(path) ==
  /\ Len(path[Len(path)]) >= 2
  /\ path[Len(path)][Len(path[Len(path)])] \in INDEXED_EXT
  /\ ~ \E i \in 1..(Len(path) - 1) : path[i][1] \in EXCLUDED_DIRS
  /\ ~ExcludedNamePart(path[Len(path)])

\* extractEntry of a file with this content: detectPattern and the symbol
\* lists follow the content, detectDomain the path (src/shop/..: shop)
ExtractEntry(path, file) ==
  [file |-> path,
   pattern |-> IF file.content = "stub" THEN "other" ELSE file.content,
   domain |-> path[2][1],
   imports |-> IF file.content = "page" THEN <<(<<(<<".">>), (<<"y">>)>>)>> ELSE <<>>,
   exports |-> 1, functions |-> 0, classes |-> 0, hooks |-> 0,
   contentHash |-> file.content,
   lines |-> IF file.content = "stub" THEN 2 ELSE 20,
   lastModified |-> file.mtime]

OnDisk(w) == {p \in DOMAIN w : w[p].exists}

\* the files scanWorkspace returns
Scanned(w) == {p \in OnDisk(w) : ScanIncludes(p)}

\* getProjectHash: the digest of relativePath:contentHash:lastModified of the
\* scanned files in path order, written as the set of the hashed items
GetProjectHash(w) == {<<p, w[p].content, w[p].mtime>> : p \in Scanned(w)}

\* the digest of updateIndexForFiles: k:contentHash of the index entries
EntriesHash(index) == {<<index[i].file, index[i].contentHash>> : i \in 1..Len(index)}

HasEntry(index, path) == \E i \in 1..Len(index) : index[i].file = path

EntryOf(index, path) == index[CHOOSE i \in 1..Len(index) : index[i].file = path]

\* indexed[rel] = entry
RECURSIVE IndexSet(_, _)
IndexSet(index, entry) ==
  IF index = <<>> THEN <<entry>>
  ELSE IF index[1].file = entry.file THEN <<entry>> \o Tail(index)
  ELSE <<index[1]>> \o IndexSet(Tail(index), entry)

\* delete indexed[rel]
IndexDelete(index, path) == SelectSeq(index, LAMBDA e : e.file # path)

\* compares the modification time where the code compares the content hash
SameContentByMtime(existing, rel, w) ==
  /\ HasEntry(existing, rel)
  /\ EntryOf(existing, rel).lastModified = w[rel].mtime

\* prev && prev.contentHash === contentHash
SameContent(existing, rel, w) ==
  /\ HasEntry(existing, rel)
  /\ EntryOf(existing, rel).contentHash = w[rel].content

Cache(now, index, hash, count) ==
  [exists |-> TRUE, timestamp |-> now, files |-> index, projectHash |-> hash,
   lastScan |-> now, fileCount |-> count]

\* buildIndex, its loop over the scanned files (order: the scan order)
RECURSIVE BuildEntries(_, _, _)
BuildEntries(index, w, order) ==
  IF order = <<>> THEN index
  ELSE LET entry == ExtractEntry(order[1], w[order[1]])
       IN BuildEntries(IF IsUsefulEntry(entry) THEN IndexSet(index, entry) ELSE index,
                       w, Tail(order))

\* updateIndex, its loop over the scanned files
RECURSIVE UpdateEntries(_, _, _, _)
UpdateEntries(index, existing, w, order) ==
  IF order = <<>> THEN index
  ELSE LET rel   == order[1]
           entry == ExtractEntry(rel, w[rel])
       IN UpdateEntries(
            IF SameContent(existing, rel, w) THEN index
            ELSE IF IsUsefulEntry(entry) THEN IndexSet(index, entry)
            ELSE IndexDelete(index, rel),
            existing, w, Tail(order))

\* updateIndexForFiles, its loop over deletedUris
RECURSIVE DeleteAll(_, _)
DeleteAll(index, paths) ==
  IF paths = {} THEN index
  ELSE LET p == CHOOSE q \in paths : TRUE
       IN DeleteAll(IndexDelete(index, p), paths \ {p})

\* updateIndexForFiles, its loop over changedUris
RECURSIVE ChangeEntries(_, _, _, _)
ChangeEntries(index, existing, w, uris) ==
  IF uris = <<>> THEN index
  ELSE LET rel == uris[1]
       IN ChangeEntries(
            IF ~IsIndexedFile(rel) THEN index
            ELSE IF rel \notin OnDisk(w) THEN IndexDelete(index, rel)
            ELSE IF SameContent(existing, rel, w) THEN index
            ELSE IF IsUsefulEntry(ExtractEntry(rel, w[rel]))
            THEN IndexSet(index, ExtractEntry(rel, w[rel]))
            ELSE IndexDelete(index, rel),
            existing, w, Tail(uris))

\* changedRelPaths: the deleted paths, then the changed paths that are
\* indexed files
ChangedRelPaths(uris, deleted) ==
  deleted \cup {uris[i] : i \in {k \in 1..Len(uris) : IsIndexedFile(uris[k])}}

KeysOf(index) == {index[i].file : i \in 1..Len(index)}

\* the record of one operation: its arguments, the files it wrote, whether it
\* repeats the call before it, the paths whose entries it removed
Op(op, changed, deleted, wroteIndex, wroteGraph, repeat, dropped) ==
  [op |-> op, changed |-> changed, deleted |-> deleted, wroteIndex |-> wroteIndex,
   wroteGraph |-> wroteGraph, repeat |-> repeat, dropped |-> dropped,
   quiet |-> TRUE]

indexFrame == <<loopVars, files, valVars, httpVars, filterVars, weightVars,
                resolveVars, ideVars>>

InitIndex ==
  /\ LoopIdle /\ ValIdle /\ HttpIdle /\ FilterIdle /\ WeightsIdle /\ ResolveIdle
  /\ IdeIdle
  /\ files = LoopFiles
  /\ ws \in [IPaths -> {NoDiskFile} \cup {DiskFile(c, 0) : c \in ContentIds}]
  /\ iCache = NoCache /\ gFile = NoGraph /\ iOps = 0
  /\ iLast = NoOp

\* a file is saved or created, with new content or with the content it had:
\* its modification time moves on
WsWrite ==
  /\ \E p \in DOMAIN ws : \E c \in ContentIds :
       /\ ws[p].mtime + 1 \in Mtimes
       /\ ws' = [ws EXCEPT ![p] = DiskFile(c, ws[p].mtime + 1)]
  /\ iLast' = [iLast EXCEPT !.quiet = FALSE]
  /\ UNCHANGED <<iCache, gFile, iOps, indexFrame>>

WsDelete ==
  /\ \E p \in OnDisk(ws) :
       ws' = [ws EXCEPT ![p] = [NoDiskFile EXCEPT !.mtime = ws[p].mtime]]
  /\ iLast' = [iLast EXCEPT !.quiet = FALSE]
  /\ UNCHANGED <<iCache, gFile, iOps, indexFrame>>

\* buildIndex with the scan returning the files in this order
BuildIndexInto(order, now, op) ==
  LET index == BuildEntries(<<>>, ws, order)
  IN /\ iCache' = Cache(now, index, GetProjectHash(ws), Len(order))
     /\ gFile' = BuildGraphFromIndex(index, now)
     /\ iLast' = op

IndexBuild ==
  /\ iOps < MaxOps
  /\ iOps' = iOps + 1
  /\ \E order \in Orders(Scanned(ws)) :
       BuildIndexInto(order, iOps + 1, Op("build", <<>>, {}, TRUE, TRUE, FALSE, {}))
  /\ UNCHANGED <<ws, indexFrame>>

\* updateIndex(workspaceUri)
UpdateIndex ==
  IF ~iCache.exists
  THEN /\ iLast' = Op("update", <<>>, {}, FALSE, FALSE, FALSE, {})
       /\ UNCHANGED <<iCache, gFile>>
  ELSE IF iCache.projectHash = GetProjectHash(ws)
  THEN /\ iLast' = Op("update", <<>>, {}, FALSE, FALSE, FALSE, {})
       /\ UNCHANGED <<iCache, gFile>>
  ELSE \E order \in Orders(Scanned(ws)) :
         LET updated == UpdateEntries(iCache.files, iCache.files, ws, order)
             index   == DeleteAll(updated, KeysOf(iCache.files) \ Scanned(ws))
         IN /\ iCache' = Cache(iOps + 1, index, GetProjectHash(ws), Len(order))
            /\ gFile' = BuildGraphFromIndex(index, iOps + 1)
            /\ iLast' = Op("update", <<>>, {}, TRUE, TRUE, FALSE,
                            KeysOf(iCache.files) \ KeysOf(index))

IndexUpdate ==
  /\ iOps < MaxOps
  /\ iOps' = iOps + 1
  /\ UpdateIndex
  /\ UNCHANGED <<ws, indexFrame>>

\* the same call as the latest one, with no file changed in between
Repeats(uris, deleted) ==
  /\ iLast.op = "forFiles" /\ iLast.quiet
  /\ iLast.changed = uris /\ iLast.deleted = deleted

\* the lists of changed URIs and the sets of deleted URIs a call is given
ChangedUriLists == {<<>>, <<SX>>, <<SY>>, <<SX, SY>>, <<NotesMd>>}

DeletedUriSets == {{}, {SX}, {SY}}

\* updateIndexForFiles(workspaceUri, changedUris, deletedUris)
UpdateIndexForFiles(uris, deleted) ==
  IF ~iCache.exists
  THEN \E order \in Orders(Scanned(ws)) :
         BuildIndexInto(order, iOps + 1,
                        Op("forFiles", uris, deleted, TRUE, TRUE, FALSE, {}))
  ELSE LET index == ChangeEntries(DeleteAll(iCache.files, deleted),
                                  iCache.files, ws, uris)
           changed == ChangedRelPaths(uris, deleted)
       IN IF changed = {}
          THEN /\ iLast' = Op("forFiles", uris, deleted, FALSE, FALSE,
                              Repeats(uris, deleted), {})
               /\ UNCHANGED <<iCache, gFile>>
          ELSE /\ iCache' = Cache(iOps + 1, index, EntriesHash(index), Len(index))
               /\ gFile' = UpdateGraphForFiles(gFile, index, changed, iOps + 1)
               /\ iLast' = Op("forFiles", uris, deleted, TRUE, TRUE,
                              Repeats(uris, deleted),
                              KeysOf(iCache.files) \ KeysOf(index))

IndexUpdateForFiles ==
  /\ iOps < MaxOps
  /\ iOps' = iOps + 1
  /\ \E uris \in ChangedUriLists : \E deleted \in DeletedUriSets :
       UpdateIndexForFiles(uris, deleted)
  /\ UNCHANGED <<ws, indexFrame>>

NextIndex ==
  \/ WsWrite
  \/ WsDelete
  \/ IndexBuild
  \/ IndexUpdate
  \/ IndexUpdateForFiles

SpecIndex == InitIndex /\ [][NextIndex]_vars

\* C14: a call of updateIndexForFiles that repeats the call before it, with no
\* file changed in between, writes neither index.json nor pattern-graph.json
\* and leaves both as the first call left them
C14_IdempotentUpdate ==
  [][iLast'.repeat /\ iOps' = iOps + 1
       => /\ ~iLast'.wroteIndex /\ ~iLast'.wroteGraph
          /\ iCache' = iCache /\ gFile' = gFile]_vars

\* an index operation other than a build takes this step
IndexStep ==
  /\ iOps' = iOps + 1
  /\ iCache.exists
  /\ iLast'.op \in {"update", "forFiles"}

\* the file on disk has the content of its index entry and another
\* modification time
Touched(p) ==
  /\ p \in OnDisk(ws)
  /\ HasEntry(iCache.files, p)
  /\ EntryOf(iCache.files, p).contentHash = ws[p].content
  /\ EntryOf(iCache.files, p).lastModified # ws[p].mtime

EntryKept(p) ==
  /\ HasEntry(iCache'.files, p)
  /\ EntryOf(iCache'.files, p) = EntryOf(iCache.files, p)

PassesFilter(e) ==
  /\ e.lines >= 3
  /\ e.pattern # "test"
  /\ ~(e.pattern = "other" /\ ~HasSymbols(e) /\ e.lines < 15)

\* the latest operation read the file at this path, and the file has not
\* changed since
SeenBy(p) ==
  /\ iLast.quiet
  /\ \/ iLast.op \in {"build", "update"}
     \/ iLast.op = "forFiles" /\ p \in ChangedRelPaths(iLast.changed, {})

MAX_CONTEXT_CHARS == 8000

MAX_RELEVANT_FILES == 18

MAX_ACTIVE_FILE_CHARS == 2000

MAX_NEIGHBOR_CHARS == 600

MAX_NEIGHBORS == 3

\* lengths of the relative paths of the workspace
PathLens == {8, 40}

\* lengths of the files read; 0: the file cannot be read or is empty
ActiveLens == {0, 1500, 2000, 2001, 9000}

NeighborLens == {0, 600, 601}

\* lengths of one annotated line of the relevant files
LineLens == {8, 200}

\* lengths of the joined examples of the graph; 0: graph.examples is empty
ExampleLens == {0, 60, 3000}

RECURSIVE SumSeq(_)
SumSeq(q) == IF q = <<>> THEN 0 ELSE q[1] + SumSeq(Tail(q))

\* the length of parts.join(sep), sep of this length
JoinLen(q, sep) == IF q = <<>> THEN 0 ELSE SumSeq(q) + sep * (Len(q) - 1)

\* content.length > max ? content.slice(0, max) + '\n... (truncated)' : content
TruncatedLen(len, max) == IF len > max THEN max + 16 ELSE len

\* text.length > MAX_CONTEXT_CHARS ? text.slice(0, MAX_CONTEXT_CHARS) + '…' : text
ContextLen(len) == IF len > MAX_CONTEXT_CHARS THEN MAX_CONTEXT_CHARS + 1 ELSE len

ctxFrame == <<loopVars, files, valVars, httpVars, idxVars, schedVars, regVars,
              lookupVars, graphVars,
              pathVars, syncVars,
    lateVars>>

InitContext ==
  /\ LoopIdle /\ ValIdle /\ HttpIdle /\ IdxIdle /\ files = LoopFiles /\ LateIdle
  /\ SchedIdle /\ RegIdle /\ LookupIdle /\ GraphIdle /\ PathIdle
  /\ SyncIdle /\ cPc = "graph" /\ cParts = <<>> /\ cOut = -1

\* pattern-graph.json is read and parsed; null if either fails
CtxReadGraph ==
  /\ cPc = "graph"
  /\ \E outcome \in {"parsed", "missing", "malformed"} :
       cPc' = IF outcome = "parsed" THEN "active" ELSE "done"
  /\ UNCHANGED <<cParts, cOut, ctxFrame>>

\* 1. the active file, if there is one and it can be read
CtxActive ==
  /\ cPc = "active"
  /\ cPc' = "neighbors"
  /\ \E hasActive \in BOOLEAN : \E path \in PathLens : \E len \in ActiveLens :
       cParts' = IF hasActive /\ len > 0
                 THEN Append(cParts,
                             24 + path + TruncatedLen(len, MAX_ACTIVE_FILE_CHARS))
                 ELSE cParts
  /\ UNCHANGED <<cOut, ctxFrame>>

\* the neighbours of the active file that can be read, MAX_NEIGHBORS at most
CtxNeighbors ==
  /\ cPc = "neighbors"
  /\ cPc' = "relevant"
  /\ \E n \in 0..MAX_NEIGHBORS : \E path \in PathLens : \E len \in NeighborLens :
       LET neighborParts ==
             IF len = 0 THEN <<>>
             ELSE [i \in 1..n |-> 9 + path + TruncatedLen(len, MAX_NEIGHBOR_CHARS)]
       IN cParts' = IF neighborParts = <<>> THEN cParts
                    ELSE Append(cParts, 17 + JoinLen(neighborParts, 2))
  /\ UNCHANGED <<cOut, ctxFrame>>

\* 2. the files relevant to the query, MAX_RELEVANT_FILES at most
CtxRelevant ==
  /\ cPc = "relevant"
  /\ cPc' = "patterns"
  /\ \E n \in {0, 1, MAX_RELEVANT_FILES} : \E len \in LineLens :
       cParts' = IF n = 0 THEN cParts
                 ELSE Append(cParts, 19 + JoinLen([i \in 1..n |-> len], 1))
  /\ UNCHANGED <<cOut, ctxFrame>>

\* 3. the examples of the graph
CtxPatterns ==
  /\ cPc = "patterns"
  /\ cPc' = "return"
  /\ \E len \in ExampleLens :
       cParts' = IF len = 0 THEN cParts ELSE Append(cParts, 18 + len)
  /\ UNCHANGED <<cOut, ctxFrame>>

CtxReturn ==
  /\ cPc = "return"
  /\ cPc' = "done"
  /\ cOut' = IF cParts = <<>> THEN -1 ELSE ContextLen(JoinLen(cParts, 2))
  /\ UNCHANGED <<cParts, ctxFrame>>

NextContext ==
  \/ CtxReadGraph
  \/ CtxActive
  \/ CtxNeighbors
  \/ CtxRelevant
  \/ CtxPatterns
  \/ CtxReturn

SpecContext == InitContext /\ [][NextContext]_vars

\* C21: the string getFinderProjectContext returns has at most
\* MAX_CONTEXT_CHARS characters, the truncation marker included
C21_BoundedContext == cPc = "done" => cOut <= MAX_CONTEXT_CHARS

(* ------------------------------------------------------------------ *)
(* The debounced index update (extension.ts)                           *)
(* ------------------------------------------------------------------ *)
INDEX_DEBOUNCE_MS == 1500

\* the time the model follows the extension for, in ms
MaxTime == 6000

\* qualifying events of one run
MaxEvents == 4

\* the time that passes between two steps, in ms
Delays == {500, 1000, 1500}

\* sets the timer without clearing the one that is pending
KeepTimer(timer, now) == IF timer >= 0 THEN timer ELSE now + INDEX_DEBOUNCE_MS

\* scheduleIndexUpdate: clearTimeout of the pending timer, then setTimeout;
\* the result is when the new timer is due
ScheduleIndexUpdate(timer, now) == now + INDEX_DEBOUNCE_MS

schedFrame == <<loopVars, files, valVars, httpVars, idxVars, ctxVars, regVars,
                lookupVars, graphVars,
              pathVars, syncVars,
    lateVars>>

\* activate has returned: getOrBuildIndex is running, the listeners are set
InitSched ==
  /\ LoopIdle /\ ValIdle /\ HttpIdle /\ IdxIdle /\ CtxIdle /\ RegIdle
  /\ LookupIdle /\ GraphIdle /\ PathIdle /\ SyncIdle /\ files = LoopFiles /\ LateIdle
  /\ sNow = 0 /\ sTimer = -1 /\ sRunning = 1 /\ sEvents = 0 /\ sLastEvent = -1
  /\ sBurst = 0 /\ sStarts = 0 /\ sStartAt = -1

\* time passes, up to the moment the timer is due: setTimeout runs its
\* callback when the delay has elapsed
SchedTick ==
  /\ \E d \in Delays :
       /\ sNow + d <= MaxTime
       /\ sNow' = IF sTimer >= 0 /\ sNow + d > sTimer THEN sTimer ELSE sNow + d
  /\ sTimer >= 0 => sNow < sTimer
  /\ UNCHANGED <<sTimer, sRunning, sEvents, sLastEvent, sBurst, sStarts, sStartAt,
                 schedFrame>>

\* onDidSaveTextDocument, onDidCreateFiles or onDidDeleteFiles runs for an
\* event; an event that arrives when the timer is due is handled after the
\* timer's callback (the timers of a loop iteration run before its events)
SchedEvent ==
  /\ sTimer >= 0 => sNow < sTimer
  /\ sEvents < MaxEvents
  /\ \E qualifies \in BOOLEAN :
       IF qualifies
       THEN /\ sTimer' = ScheduleIndexUpdate(sTimer, sNow)
            /\ sEvents' = sEvents + 1
            /\ sBurst' = IF sLastEvent >= 0 /\ sNow - sLastEvent < INDEX_DEBOUNCE_MS
                         THEN sBurst + 1 ELSE 1
            /\ sLastEvent' = sNow
            /\ sStarts' = 0
       ELSE UNCHANGED <<sTimer, sEvents, sBurst, sLastEvent, sStarts>>
  /\ UNCHANGED <<sNow, sRunning, sStartAt, schedFrame>>

\* the timer's callback: indexDebounceTimer = null; void updateIndex(..)
SchedFire ==
  /\ sTimer >= 0 /\ sNow >= sTimer
  /\ sTimer' = -1
  /\ sRunning' = sRunning + 1
  /\ sStarts' = sStarts + 1
  /\ sStartAt' = sNow
  /\ UNCHANGED <<sNow, sEvents, sLastEvent, sBurst, schedFrame>>

\* a build or an update returns, index.json and pattern-graph.json written
SchedFinish ==
  /\ sRunning > 0
  /\ sRunning' = sRunning - 1
  /\ UNCHANGED <<sNow, sTimer, sEvents, sLastEvent, sBurst, sStarts, sStartAt,
                 schedFrame>>

NextSched ==
  \/ SchedTick
  \/ SchedEvent
  \/ SchedFire
  \/ SchedFinish

SpecSched == InitSched /\ [][NextSched]_vars

\* C22: an update starts only when INDEX_DEBOUNCE_MS have passed since the
\* latest qualifying event, a burst starts no second update, and once that
\* interval has passed after a burst its one update has started
C22_OneUpdatePerBurst ==
  /\ sStarts > 0 => sStartAt >= sLastEvent + INDEX_DEBOUNCE_MS
  /\ sStarts <= 1
  /\ sLastEvent >= 0 /\ sNow > sLastEvent + INDEX_DEBOUNCE_MS => sStarts = 1

\* a burst of three events has been followed by its update
C22_Witness == sBurst = 3 /\ sStarts = 1 /\ sTimer = -1

\* C23: no index update is started while an earlier build or update is still
\* running
C23_SingleWriter == sRunning <= 1

(* ------------------------------------------------------------------ *)
(* Tools registered at run time (handlers/create-composite-tool.ts)    *)
(* ------------------------------------------------------------------ *)
\* names a create_composite_tool call may give to the new tool
NewToolNames == {"find_and_analyze", "read_and_grep", "read_file", ""}

\* one item of args.steps: the tool it names, and whether its args field is
\* an object (Object.entries throws on a missing one)
Step(tool) == [tool |-> tool, argsOk |-> TRUE]

StepNoArgs(tool) == [tool |-> tool, argsOk |-> FALSE]

\* the steps of a new tool
StepLists == {<<>>, <<Step("search_files"), Step("read_file")>>, <<Step("grep")>>,
              <<Step("fly")>>, <<Step("find_and_analyze")>>,
              <<Step("read_and_grep"), Step("grep")>>,
              <<StepNoArgs("grep"), Step("read_file")>>}

\* the register calls of tools/index.ts, in their order
BuiltinOrder == <<"list_dir", "search_files", "read_file", "grep",
                  "get_project_commands", "propose_edits", "search_and_read",
                  "create_composite_tool", "think", "create_plan">>

BuiltinHandler(n) == [name |-> n, composite |-> FALSE, steps |-> <<>>]

\* successful create_composite_tool calls of one session
MaxCreates == 2

\* nesting of composite executions the model follows
MaxDepth == MaxCreates + 1

\* export const TOOLS = getDefinitions(), evaluated when tools/index.ts loads
TOOLS == RegistryNames

\* the names registry execute dispatches: registry.get(name) is defined
Dispatchable == DOMAIN gRegistry

\* tools: useTools ? TOOLS : undefined
SentTools(registry) == TOOLS

\* registry.get(step.tool) at the time the step runs
StepHandlerLate(step) == gRegistry[step.tool]

\* handlerMap.get(step.tool): the map built when the composite was created
StepHandler(step) == step.handler

\* the step with the handler object handlerMap holds for its tool
Bind(handlerMap, step) ==
  [tool |-> step.tool, argsOk |-> step.argsOk, handler |-> handlerMap[step.tool]]

regFrame == <<loopVars, files, valVars, httpVars, idxVars, ctxVars, schedVars,
              lookupVars, graphVars,
              pathVars, syncVars,
    lateVars>>

\* tools/index.ts has been loaded: handler objects are numbered in the order
\* of their creation, the registry maps a name to the object registered last
InitRegistry ==
  /\ LoopIdle /\ ValIdle /\ HttpIdle /\ IdxIdle /\ CtxIdle /\ SchedIdle
  /\ LookupIdle /\ GraphIdle /\ PathIdle /\ SyncIdle /\ files = LoopFiles /\ LateIdle
  /\ gHeap = [i \in 1..Len(BuiltinOrder) |-> BuiltinHandler(BuiltinOrder[i])]
  /\ gRegistry = [n \in RegistryNames |->
                    CHOOSE i \in 1..Len(BuiltinOrder) : BuiltinOrder[i] = n]
  /\ gSent = NoRequest /\ gLastCreate = "none"
  /\ gStack = <<>> /\ gTrace = <<>> /\ gRun = NoRun

\* createCompositeToolHandler.execute(args)
RegCreateComposite ==
  /\ Len(gHeap) < Len(BuiltinOrder) + MaxCreates
  /\ \E name \in NewToolNames : \E hasDescription \in BOOLEAN :
     \E steps \in StepLists :
       IF name = "" \/ ~hasDescription \/ steps = <<>>
       THEN /\ gLastCreate' = "error: arguments"
            /\ UNCHANGED <<gRegistry, gHeap>>
       ELSE IF \E i \in 1..Len(steps) : steps[i].tool \notin DOMAIN gRegistry
       THEN /\ gLastCreate' = "error: unknown tool"
            /\ UNCHANGED <<gRegistry, gHeap>>
       ELSE LET handlerMap == gRegistry
                newHandler == [name |-> name, composite |-> TRUE,
                               steps |-> [i \in 1..Len(steps) |->
                                            Bind(handlerMap, steps[i])]]
            IN /\ gHeap' = Append(gHeap, newHandler)
               /\ gRegistry' = [n \in DOMAIN gRegistry \cup {name} |->
                                  IF n = name THEN Len(gHeap) + 1 ELSE gRegistry[n]]
               /\ gLastCreate' = "created"
  /\ UNCHANGED <<gSent, gStack, gTrace, gRun, regFrame>>

\* chatWithTools sends a request with tools enabled
RegRequest ==
  /\ gStack = <<>>
  /\ gSent' = [tools |-> SentTools(gRegistry), dispatchable |-> Dispatchable]
  /\ UNCHANGED <<gRegistry, gHeap, gLastCreate, gStack, gTrace, gRun, regFrame>>

\* registry execute dispatches a call to a composite tool
RegCallComposite ==
  /\ gStack = <<>>
  /\ \E name \in DOMAIN gRegistry :
       /\ gHeap[gRegistry[name]].composite
       /\ gStack' = <<[h |-> gRegistry[name], i |-> 1]>>
       /\ gRun' = [state |-> "running", root |-> gRegistry[name], failedAt |-> 0]
  /\ gTrace' = <<>>
  /\ UNCHANGED <<gRegistry, gHeap, gSent, gLastCreate, regFrame>>

\* the execution on top returns a string: its caller takes it as the result
\* of the step and goes on with the next one
Returned(stack) ==
  LET rest == SubSeq(stack, 1, Len(stack) - 1)
  IN IF rest = <<>> THEN rest ELSE [rest EXCEPT ![Len(rest)].i = @ + 1]

\* the execution on top throws: the catch of its caller returns the error
\* text of the step (registry execute catches for the outermost one)
Thrown(stack) ==
  IF Len(stack) = 1 THEN <<>> ELSE Returned(SubSeq(stack, 1, Len(stack) - 1))

\* the step of the outermost composite that failed, if this move fails one
FailedStep(stack, depthOfCatch) ==
  IF depthOfCatch = 1 THEN stack[1].i ELSE 0

\* one move of newHandler.execute of the execution on top of the stack
RegRunStep ==
  /\ gStack # <<>>
  /\ LET depth == Len(gStack)
         top   == gStack[depth]
         h     == gHeap[top.h]
     IN IF top.i > Len(h.steps)
        THEN \* return `Составной инструмент ... выполнен`
             /\ gStack' = Returned(gStack)
             /\ gRun' = IF depth = 1 THEN [gRun EXCEPT !.state = "done"] ELSE gRun
             /\ UNCHANGED gTrace
        ELSE LET step == h.steps[top.i]
             IN IF ~step.argsOk
                THEN \* Object.entries(step.args) throws outside the try block
                     /\ gStack' = Thrown(gStack)
                     /\ gRun' = IF depth <= 2
                                THEN [state |-> "done", root |-> gRun.root,
                                      failedAt |-> gStack[1].i]
                                ELSE gRun
                     /\ UNCHANGED gTrace
                ELSE LET target == gHeap[StepHandler(step)]
                     IN /\ gTrace' = IF depth = 1 THEN Append(gTrace, top.i) ELSE gTrace
                        /\ IF target.composite
                           THEN /\ depth < MaxDepth
                                /\ gStack' = Append(gStack, [h |-> StepHandler(step), i |-> 1])
                                /\ UNCHANGED gRun
                           ELSE \E ok \in BOOLEAN :
                                  IF ok
                                  THEN /\ gStack' = [gStack EXCEPT ![depth].i = @ + 1]
                                       /\ UNCHANGED gRun
                                  ELSE \* catch: return `Ошибка на шаге ...`
                                       /\ gStack' = Returned(gStack)
                                       /\ gRun' = IF depth = 1
                                                  THEN [state |-> "done", root |-> gRun.root,
                                                        failedAt |-> top.i]
                                                  ELSE gRun
  /\ UNCHANGED <<gRegistry, gHeap, gSent, gLastCreate, regFrame>>

NextRegistry ==
  \/ RegCreateComposite
  \/ RegRequest
  \/ RegCallComposite
  \/ RegRunStep

SpecRegistry == InitRegistry /\ [][NextRegistry]_vars

\* the composite executions under the await of registry execute: a pending
\* execution goes on
SpecComposite == SpecRegistry /\ WF_vars(RegRunStep)

\* C24: every tool name registry execute can dispatch when a request is
\* sent, a tool created by create_composite_tool included, is among the tool
\* definitions of that request
C24_NewToolAdvertised == gSent.dispatchable \subseteq gSent.tools

\* C37: create_composite_tool never replaces a registered handler: every
\* name registered before a step of the session still has the same handler
\* object after it.
C37_NoOverwrite ==
  [][\A n \in DOMAIN gRegistry :
       n \in DOMAIN gRegistry' /\ gRegistry'[n] = gRegistry[n]]_vars

\* the steps 1..n, each once and in order
InOrder(n) == [i \in 1..n |-> i]

RootSteps == gHeap[gRun.root].steps

BoundBefore ==
  \A id \in 1..Len(gHeap) : \A k \in 1..Len(gHeap[id].steps) :
    StepHandler(gHeap[id].steps[k]) < id

\* a finished execution has invoked a prefix of its list in order: the whole
\* list unless a step failed, and nothing after the failed step
StepsInOrder ==
  gRun.state = "done" =>
    /\ gTrace = InOrder(Len(gTrace))
    /\ IF gRun.failedAt = 0 THEN Len(gTrace) = Len(RootSteps)
       ELSE /\ gRun.failedAt <= Len(RootSteps)
            /\ Len(gTrace) \in {gRun.failedAt - 1, gRun.failedAt}

MAX_SEARCH_RESULTS == 30

\* paths of the index besides the filler files
MaxIndexed == 3

KServices == <<(<<"src">>), (<<"services">>), (<<"login", "ts">>)>>

KLegacyStatic == <<(<<"src">>), (<<"legacy">>), (<<"static">>), (<<"login", "ts">>)>>

KLegacy == <<(<<"src">>), (<<"legacy">>), (<<"login", "ts">>)>>

KStaticLogin == <<(<<"src">>), (<<"pages">>), (<<"static", "login", "ts">>)>>

KStaticReact == <<(<<"src">>), (<<"static", "react">>), (<<"login", "form", "ts">>)>>

KLoginDir == <<(<<"src">>), (<<"login">>), (<<"index", "ts">>)>>

LookupPaths == {KServices, KLegacyStatic, KLegacy, KStaticLogin, KStaticReact,
                KLoginDir}

\* src/items/login-<i>.ts
Filler(i) == <<(<<"src">>), (<<"items">>), (<<"login", ToString(i), "ts">>)>>

Fillers(n) == [i \in 1..n |-> Filler(i)]

\* the token lists of the queries: login, legacy login, form, zz, and a
\* query of separators only
TokenLists == {<<"login">>, <<"legacy", "login">>, <<"form">>, <<"zz">>, <<>>}

HasWord(path, w) ==
  \E i \in 1..Len(path) : \E j \in 1..Len(path[i]) : path[i][j] = w

\* lower.includes('a-b')
HasPair(path, a, b) ==
  \E i \in 1..Len(path) : \E j \in 1..(Len(path[i]) - 1) :
    /\ path[i][j] = a /\ path[i][j + 1] = b
    /\ i = Len(path) => j + 1 < Len(path[i])

\* lower.includes('/name/') on a relative path
HasInnerDir(path, name) == \E i \in 2..(Len(path) - 1) : path[i] = <<name>>

Bit(b) == IF b THEN 1 ELSE 0

\* searchPenalty: the entries of DEPRIORITIZED_SEGMENTS the path includes
SearchPenalty(path) ==
    Bit(HasPair(path, "static", "react"))
  + Bit(HasWord(path, "static"))
  + Bit(HasWord(path, "legacy"))
  + Bit(HasInnerDir(path, "dist"))
  + Bit(HasInnerDir(path, "build"))
  + Bit(HasInnerDir(path, "generated"))
  + Bit(HasInnerDir(path, "__generated__"))
  + Bit(HasInnerDir(path, ".cache"))
  + Bit(HasInnerDir(path, "node_modules"))

\* for (const t of tokens) if (lower.includes(t)) score++
Score(path, tokens) == Cardinality({i \in 1..Len(tokens) : HasWord(path, tokens[i])})

Keyed(path, k1, k2, k3) == [path |-> path, k1 |-> k1, k2 |-> k2, k3 |-> k3]

KeyLess(a, b) ==
  \/ a.k1 < b.k1
  \/ a.k1 = b.k1 /\ a.k2 < b.k2
  \/ a.k1 = b.k1 /\ a.k2 = b.k2 /\ a.k3 < b.k3

\* Array.prototype.sort with a consistent comparator: stable
RECURSIVE InsertKeyed(_, _)
InsertKeyed(sorted, x) ==
  IF sorted = <<>> THEN <<x>>
  ELSE IF KeyLess(x, sorted[1]) THEN <<x>> \o sorted
  ELSE <<sorted[1]>> \o InsertKeyed(Tail(sorted), x)

RECURSIVE StableSort(_)
StableSort(q) ==
  IF q = <<>> THEN <<>> ELSE InsertKeyed(StableSort(Front(q)), q[Len(q)])

PathsOfKeyed(q) == [i \in 1..Len(q) |-> q[i].path]

Take(q, n) == SubSeq(q, 1, Min(n, Len(q)))

\* scored, sorted by penalty and then by descending score, cut to the top
SearchTop(index, tokens) ==
  LET matching == SelectSeq(index, LAMBDA p : Score(p, tokens) > 0)
      scored   == [i \in 1..Len(matching) |->
                     Keyed(matching[i], SearchPenalty(matching[i]),
                           0 - Score(matching[i], tokens), 0)]
  IN Take(PathsOfKeyed(StableSort(scored)), MAX_SEARCH_RESULTS)

\* pathPenalty: the entries of DEPRIORITIZED_SEGMENTS that are a directory of
\* the path
PathPenalty(path) ==
  Cardinality({seg \in {<<"static", "react">>, <<"static">>, <<"legacy">>,
                        <<"dist">>, <<"build">>, <<"generated">>,
                        <<"__generated__">>} :
                 \E i \in 1..(Len(path) - 1) : path[i] = seg})

LastSegment(path) == path[Len(path)]

\* filename.replace(/\.[^.]+$/, '')
Stem(filename) == IF Len(filename) >= 2 THEN Front(filename) ELSE filename

\* /\.(tsx?|jsx?|vue|go|py)$/i.test(p)
HasSourceExt(path) ==
  /\ Len(LastSegment(path)) >= 2
  /\ LastSegment(path)[Len(LastSegment(path))] \in {"ts", "tsx", "js", "jsx", "vue", "go", "py"}

\* a.startsWith(dirPrefix + '/')
InDir(path, dir) == Len(path) > Len(dir) /\ SubSeq(path, 1, Len(dir)) = dir

\* [...exactName, ...byStem] of resolvePathCandidates
CandidateList(requested, index) ==
  LET filename  == LastSegment(requested)
      stem      == Stem(filename)
      exactName == SelectSeq(index, LAMBDA p : LastSegment(p) = filename)
      byStem    == SelectSeq(index, LAMBDA p :
                     /\ LastSegment(p) # filename
                     /\ \/ \E i \in 2..(Len(p) - 1) : p[i] = stem
                        \/ Len(p) >= 2 /\ LastSegment(p) = stem
                     /\ HasSourceExt(p))
  IN exactName \o byStem

SeqRange(q) == {q[i] : i \in 1..Len(q)}

\* resolvePathCandidates on an index with several files of one name: the
\* results candidates.sort(..) can have, cut to five.  With a directory
\* in the requested path the comparator orders by directory, penalty and
\* depth; without one aInDir is 0 and bInDir is 1 for every pair, the
\* comparator is negative both ways and the order is whatever the engine's
\* sort makes of it
RankedCandidates(requested, index) ==
  LET dir        == Front(requested)
      candidates == CandidateList(requested, index)
      keyed      == [i \in 1..Len(candidates) |->
                       Keyed(candidates[i],
                             IF InDir(candidates[i], dir) THEN 0 ELSE 1,
                             PathPenalty(candidates[i]), Len(candidates[i]))]
  IN IF dir # <<>> \/ Len(candidates) < 2
     THEN {Take(PathsOfKeyed(StableSort(keyed)), 5)}
     ELSE {Take(q, 5) : q \in Orders(SeqRange(candidates))}

\* the paths read_file is asked for: login.ts, src/services/login.ts,
\* app/login.ts, src/legacy/login.ts, src/missing.ts
ReadRequests ==
  {<<(<<"login", "ts">>)>>, KServices, <<(<<"app">>), (<<"login", "ts">>)>>, KLegacy,
   <<(<<"src">>), (<<"missing", "ts">>)>>}

lookupFrame == <<loopVars, files, valVars, httpVars, idxVars, ctxVars, schedVars,
                 regVars, graphVars, pathVars, syncVars,
    lateVars>>

\* an index of at most MaxIndexed of the paths, in any key order, with or
\* without MAX_SEARCH_RESULTS filler files before or after them
InitLookup ==
  /\ LoopIdle /\ ValIdle /\ HttpIdle /\ IdxIdle /\ CtxIdle /\ SchedIdle /\ RegIdle
  /\ GraphIdle /\ PathIdle /\ SyncIdle /\ files = LoopFiles /\ LateIdle
  /\ \E S \in SUBSET LookupPaths : \E q \in Orders(S) :
     \E n \in {0, MAX_SEARCH_RESULTS} : \E fillersFirst \in BOOLEAN :
       /\ Cardinality(S) <= MaxIndexed
       /\ kIndex = IF fillersFirst THEN Fillers(n) \o q ELSE q \o Fillers(n)
  /\ kCall = NoLookup /\ kOut = NoAnswer

Answer(status, paths) == [status |-> status, paths |-> paths]

\* searchFilesHandler.execute
LookupSearch ==
  /\ kCall = NoLookup
  /\ \E blank \in BOOLEAN : \E hasIndex \in BOOLEAN : \E tokens \in TokenLists :
       /\ kCall' = [tool |-> "search_files", tokens |-> tokens, path |-> <<>>]
       /\ kOut' = IF blank THEN Answer("empty query", <<>>)
                  ELSE IF ~hasIndex THEN Answer("no index", <<>>)
                  ELSE IF tokens = <<>> THEN Answer("no keywords", <<>>)
                  ELSE IF SearchTop(kIndex, tokens) = <<>>
                  THEN Answer("no files", <<>>)
                  ELSE Answer("ok", SearchTop(kIndex, tokens))
  /\ UNCHANGED <<kIndex, lookupFrame>>

\* readFileHandler.execute: the path is readable or not, and so is the best
\* candidate
LookupRead ==
  /\ kCall = NoLookup
  /\ \E requested \in ReadRequests : \E readable \in BOOLEAN :
     \E hasIndex \in BOOLEAN : \E bestReadable \in BOOLEAN :
     \E candidates \in RankedCandidates(requested,
                                             IF hasIndex THEN kIndex ELSE <<>>) :
       /\ kCall' = [tool |-> "read_file", tokens |-> <<>>, path |-> requested]
       /\ kOut' = IF readable THEN Answer("content", <<requested>>)
                  ELSE IF candidates = <<>> THEN Answer("not found", <<>>)
                  ELSE IF bestReadable THEN Answer("substituted", candidates)
                  ELSE Answer("matches", candidates)
  /\ UNCHANGED <<kIndex, lookupFrame>>

NextLookup ==
  \/ LookupSearch
  \/ LookupRead

SpecLookup == InitLookup /\ [][NextLookup]_vars

\* the segments of the path that are one of the deprioritized names
DeprioritizedSegments(path) ==
  Cardinality({i \in 1..Len(path) :
                 path[i] \in {<<"static", "react">>, <<"static">>, <<"legacy">>,
                              <<"dist">>, <<"build">>, <<"generated">>,
                              <<"__generated__">>, <<".cache">>,
                              <<"node_modules">>}})

\* C25: search_files lists a path with fewer deprioritized segments before
\* any path with more and, among paths with as many, the one matching more
\* tokens first; it lists at most MAX_SEARCH_RESULTS paths; with only
\* src/services/login.ts and src/legacy/static/login.ts indexed, the query
\* login lists src/services/login.ts first
C25_SearchOrder ==
  kCall.tool = "search_files" /\ kOut.status = "ok" =>
    /\ \A i, j \in 1..Len(kOut.paths) : i < j =>
         \/ DeprioritizedSegments(kOut.paths[i]) < DeprioritizedSegments(kOut.paths[j])
         \/ /\ DeprioritizedSegments(kOut.paths[i]) = DeprioritizedSegments(kOut.paths[j])
            /\ Score(kOut.paths[i], kCall.tokens) >= Score(kOut.paths[j], kCall.tokens)
    /\ Len(kOut.paths) <= MAX_SEARCH_RESULTS
    /\ SeqRange(kIndex) = {KServices, KLegacyStatic} /\ kCall.tokens = <<"login">>
         => kOut.paths = <<KServices, KLegacyStatic>>

\* the rank of a candidate for a requested path: directory affinity, then
\* deprioritized segments, then depth
RankLeq(a, b, dir) ==
  LET away(p) == IF dir # <<>> /\ InDir(p, dir) THEN 0 ELSE 1
  IN KeyLess(Keyed(a, away(a), PathPenalty(a), Len(a)),
             Keyed(b, away(b), PathPenalty(b), Len(b)))
     \/ /\ away(a) = away(b) /\ PathPenalty(a) = PathPenalty(b)
        /\ Len(a) = Len(b)

\* C26: when read_file substitutes a path, the path read is a best candidate
\* by directory affinity, then deprioritized segments, then depth, and the
\* result names it; a read that cannot be served ends in a message
C26_BestCandidate ==
  kCall.tool = "read_file" =>
    /\ kOut.status \in {"content", "substituted", "matches", "not found"}
    /\ kOut.status = "substituted" =>
         \A c \in SeqRange(CandidateList(kCall.path, kIndex)) :
           RankLeq(kOut.paths[1], c, Front(kCall.path))

(* ------------------------------------------------------------------ *)
(* SpecGraph: the persisted graph under buildAndSaveGraph and           *)
(* updateGraphForFiles (indexer/pattern-graph.ts). The index is given:  *)
(* files a/x.ts and a/y.ts of domain global, each absent or with one    *)
(* of the entries below.                                                *)
(* ------------------------------------------------------------------ *)
GPaths == {AX, AY}

GPatterns == {"page", "service"}

\* the import of the sibling file: ./y in a/x.ts, ./x in a/y.ts
SiblingImport(path) ==
  IF path = AX THEN <<(<<".">>), (<<"y">>)>> ELSE <<(<<".">>), (<<"x">>)>>

\* the index entries a path may have: its pattern tag, and whether it imports
\* its sibling
GEntries(path) ==
  {GraphNode(path, p, "global", imps) :
     p \in GPatterns, imps \in {<<>>, <<SiblingImport(path)>>}}

\* the indexes over the two paths, in every key order
GIndexes ==
  {q \in UNION {[1..n -> GEntries(AX) \cup GEntries(AY)] : n \in 0..2} :
     \A i, j \in 1..Len(q) : i # j => q[i].file # q[j].file}

\* the paths whose entry differs between two indexes
Differing(old, new) ==
  {p \in GPaths :
     \/ HasEntry(old, p) # HasEntry(new, p)
     \/ HasEntry(old, p) /\ HasEntry(new, p) /\ EntryOf(old, p) # EntryOf(new, p)}

\* the key order of an index object patched from another: the keys it keeps
\* stay where they were, new keys come last
PatchedFrom(old, new) ==
  LET kept == SelectSeq(NodeFiles(old), LAMBDA f : HasEntry(new, f))
      n    == Len(kept)
  IN /\ SubSeq(NodeFiles(new), 1, n) = kept
     /\ \A i \in (n + 1)..Len(new) : ~HasEntry(old, new[i].file)

graphFrame == <<loopVars, files, valVars, httpVars, idxVars, ctxVars, schedVars,
                regVars, lookupVars, pathVars, syncVars,
    lateVars>>

InitGraph ==
  /\ LoopIdle /\ ValIdle /\ HttpIdle /\ IdxIdle /\ CtxIdle /\ SchedIdle /\ RegIdle
  /\ LookupIdle /\ PathIdle /\ SyncIdle /\ files = LoopFiles /\ LateIdle
  /\ uIndex \in GIndexes
  /\ uOld = <<>> /\ uChanged = {} /\ uPrev = NoGraph /\ uGraph = NoGraph /\ uStep = 0

\* buildAndSaveGraph(workspaceUri, index)
GraphBuild ==
  /\ uStep = 0
  /\ uStep' = 1
  /\ uGraph' = BuildGraphFromIndex(uIndex, 1)
  /\ uPrev' = uGraph
  /\ UNCHANGED <<uOld, uIndex, uChanged, graphFrame>>

\* the index is patched for a set of files, then
\* updateGraphForFiles(workspaceUri, index, changedRelPaths); changedRelPaths
\* has every path whose entry differs
GraphUpdate ==
  /\ uStep < 2
  /\ uStep' = 2
  /\ \E new \in GIndexes : \E changed \in SUBSET GPaths :
       /\ PatchedFrom(uIndex, new)
       /\ Differing(uIndex, new) \subseteq changed
       /\ changed # {}
       /\ uOld' = uIndex
       /\ uIndex' = new
       /\ uChanged' = changed
       /\ uPrev' = uGraph
       /\ uGraph' = UpdateGraphForFiles(uGraph, new, changed, 2)
  /\ UNCHANGED graphFrame

NextGraph ==
  \/ GraphBuild
  \/ GraphUpdate

SpecGraph == InitGraph /\ [][NextGraph]_vars

\* updateGraphForFiles has patched a graph file that was there
Patched == uStep = 2 /\ uPrev.exists

\* C27: after updateGraphForFiles the persisted graph has the patterns,
\* filesByPattern, examples and per-file relations that buildGraphFromIndex
\* computes from the same index
C27_SameAsRebuild ==
  Patched =>
    LET built == BuildGraphFromIndex(uIndex, 2)
    IN /\ uGraph.patterns = built.patterns
       /\ uGraph.filesByPattern = built.filesByPattern
       /\ uGraph.examples = built.examples
       /\ uGraph.files = built.files

\* the files updateGraphForFiles takes as affected
AffectedNow == Affected(BuildNodes(uIndex), uChanged)

\* every affected file has the pattern tag it had
TagsKept ==
  \A p \in AffectedNow :
    /\ HasEntry(uOld, p) /\ HasEntry(uIndex, p)
    /\ EntryOf(uOld, p).pattern = EntryOf(uIndex, p).pattern

\* C28: when every affected file keeps its pattern tag, updateGraphForFiles
\* leaves the pattern-to-pattern map as it was in the persisted graph
C28_PatternsLeftAlone ==
  Patched /\ TagsKept => uGraph.patterns = uPrev.patterns

(* ------------------------------------------------------------------ *)
(* SpecScan: which paths the workspace scan includes and which          *)
(* isIndexedFile accepts (indexer/scanner.ts)                           *)
(* ------------------------------------------------------------------ *)
\* directory names and file names of the workspace
PDirs ==
  {"src", "dist", "build", ".git", ".next", "node_modules", "out", "pb",
   "coverage", "__generated__"}

PNames ==
  {<<"x", ".ts">>, <<"x", ".d", ".ts">>, <<"x", ".d", ".tsx">>,
   <<"x", ".min", ".js">>, <<"x", ".min", ".css">>, <<"x", ".pb", ".go">>,
   <<"x", ".vue">>, <<"x", ".md">>}

\* a file at the root, in a directory at the root, or in a directory of src
PPaths ==
  {<<n>> : n \in PNames}
    \cup {<<(<<d>>), n>> : d \in PDirs, n \in PNames}
    \cup {<<(<<"src">>), (<<d>>), n>> : d \in PDirs, n \in PNames}

scanFrame == <<loopVars, files, valVars, httpVars, idxVars, ctxVars, schedVars,
               regVars, lookupVars, graphVars, syncVars,
    lateVars>>

InitScan ==
  /\ LoopIdle /\ ValIdle /\ HttpIdle /\ IdxIdle /\ CtxIdle /\ SchedIdle /\ RegIdle
  /\ LookupIdle /\ GraphIdle /\ SyncIdle /\ files = LoopFiles /\ LateIdle
  /\ pPath \in PPaths
  /\ pAnswer = NoPathAnswer

\* the file at pPath is there when the workspace is scanned, and a watcher
\* event for it reaches isIndexedFile
PathAsk ==
  /\ ~pAnswer.asked
  /\ pAnswer' = [asked |-> TRUE, scanned |-> ScanIncludes(pPath),
                 indexed |-> IsIndexedFile(pPath)]
  /\ UNCHANGED <<pPath, scanFrame>>

NextScan == PathAsk

SpecScan == InitScan /\ [][NextScan]_vars

\* C29: isIndexedFile is true of exactly the paths the workspace scan includes
C29_SameFilter == pAnswer.asked => (pAnswer.indexed <=> pAnswer.scanned)

(* ------------------------------------------------------------------ *)
(* SpecSync: the index is built, files change, and updateIndexForFiles  *)
(* is called with the files that changed and the files that went        *)
(* (indexer/index.ts, as the listeners of extension.ts call it)         *)
(* ------------------------------------------------------------------ *)
DX == <<(<<"dist">>), (<<"shop">>), (<<"x", ".ts">>)>>

\* src/shop/x.ts and dist/shop/x.ts
YPaths == {SX, DX}

\* the files there now that were not there, or had other content or another
\* modification time, when the index was written
ChangedSince(before, now) ==
  {p \in OnDisk(now) : ~before[p].exists
                       \/ before[p].content # now[p].content
                       \/ before[p].mtime # now[p].mtime}

\* the files that were there when the index was written and are gone
DeletedSince(before, now) == {p \in OnDisk(before) : ~now[p].exists}

syncFrame == <<loopVars, files, valVars, httpVars, filterVars, weightVars,
               resolveVars, ctxVars, schedVars, regVars, lookupVars, graphVars,
               pathVars,
    lateVars>>

InitSync ==
  /\ LoopIdle /\ ValIdle /\ HttpIdle /\ FilterIdle /\ WeightsIdle /\ ResolveIdle
  /\ CtxIdle /\ SchedIdle /\ RegIdle /\ LookupIdle /\ GraphIdle /\ PathIdle
  /\ files = LoopFiles /\ LateIdle
  /\ ws \in [YPaths -> {NoDiskFile} \cup {DiskFile(c, 0) : c \in ContentIds}]
  /\ iCache = NoCache /\ gFile = NoGraph /\ iOps = 0
  /\ iLast = NoOp
  /\ wsWritten = <<>>

\* buildIndex
SyncBuild ==
  /\ iOps = 0
  /\ iOps' = 1
  /\ \E order \in Orders(Scanned(ws)) :
       BuildIndexInto(order, 1, Op("build", <<>>, {}, TRUE, TRUE, FALSE, {}))
  /\ wsWritten' = ws
  /\ UNCHANGED <<ws, syncFrame>>

\* updateIndexForFiles with the changed files, in any order, and the deleted
\* files
SyncUpdateForFiles ==
  /\ iOps = 1
  /\ iOps' = 2
  /\ \E uris \in Orders(ChangedSince(wsWritten, ws)) :
       UpdateIndexForFiles(uris, DeletedSince(wsWritten, ws))
  /\ wsWritten' = ws
  /\ UNCHANGED <<ws, syncFrame>>

\* updateIndex after the incremental update
SyncUpdate ==
  /\ iOps = 2
  /\ iOps' = 3
  /\ UpdateIndex
  /\ wsWritten' = ws
  /\ UNCHANGED <<ws, syncFrame>>

NextSync ==
  \/ WsWrite
  \/ WsDelete
  \/ SyncBuild
  \/ SyncUpdateForFiles
  \/ SyncUpdate

SpecSync == InitSync /\ [][NextSync]_vars

\* index.files as a map: the set of its entries
FilesMap(index) == {index[i] : i \in 1..Len(index)}

\* the call has returned and no file has changed since
Synced == iOps = 2 /\ iLast.op = "forFiles" /\ wsWritten = ws

\* C30: when updateIndexForFiles is given exactly the files that changed or
\* went since the index was written, index.files is the map buildIndex makes
\* of the files now on disk
C30_SameAsBuildIndex ==
  Synced =>
    FilesMap(iCache.files)
      = FilesMap(BuildEntries(<<>>, ws, CHOOSE o \in Orders(Scanned(ws)) : TRUE))

\* updateIndexForFiles has written the index and no file has changed since
FreshIncrement ==
  iOps = 2 /\ iLast.op = "forFiles" /\ iLast.wroteIndex /\ iLast.quiet

\* C31: an updateIndex that follows an incremental update, with no file
\* changed in between, finds the stored projectHash equal to the hash of the
\* scan and returns the cached index without writing
C31_ShortCircuit ==
  [][FreshIncrement /\ iOps' = 3
       => /\ iCache.projectHash = GetProjectHash(ws)
          /\ ~iLast'.wroteIndex /\ iCache' = iCache]_vars

\* C32: when runValidation is given commands and one of them fails, it
\* reports hasErrors = true
C32_FailureReported ==
  vPc = "returned" /\ vEdits # <<>> /\ vReport.hasCommands /\ vReport.cmdFails
    => vReport.hasErrors

(* ------------------------------------------------------------------ *)
(* SpecOpen: getOrBuildIndex (indexer/index.ts). index.json and         *)
(* pattern-graph.json are files that may be absent, hold text that is   *)
(* not JSON, or hold what the indexer wrote (iCache, gFile).            *)
(* ------------------------------------------------------------------ *)
openFrame == <<loopVars, files, valVars, httpVars, filterVars, weightVars,
               resolveVars, ctxVars, schedVars, regVars, lookupVars, graphVars,
               pathVars, syncVars, msgVars, logVars>>

InitOpen ==
  /\ LoopIdle /\ ValIdle /\ HttpIdle /\ FilterIdle /\ WeightsIdle /\ ResolveIdle
  /\ CtxIdle /\ SchedIdle /\ RegIdle /\ LookupIdle /\ GraphIdle /\ PathIdle
  /\ SyncIdle /\ MsgIdle /\ LogIdle
  /\ files = LoopFiles
  /\ ws \in [IPaths -> {NoDiskFile} \cup {DiskFile(c, 0) : c \in ContentIds}]
  /\ iCache = NoCache /\ gFile = NoGraph /\ iOps = 0
  /\ iLast = NoOp
  /\ oIndex = "absent" /\ oGraph = "absent"

\* buildIndex in an earlier session
OpenBuild ==
  /\ iOps = 0
  /\ iOps' = 1
  /\ \E order \in Orders(Scanned(ws)) :
       BuildIndexInto(order, 1, Op("build", <<>>, {}, TRUE, TRUE, FALSE, {}))
  /\ oIndex' = "ok" /\ oGraph' = "ok"
  /\ UNCHANGED <<ws, openFrame>>

\* index.json is deleted or overwritten with text that does not parse
OpenDamageIndex ==
  /\ iOps = 1 /\ oIndex = "ok"
  /\ \E s \in {"absent", "corrupt"} : oIndex' = s
  /\ iCache' = NoCache
  /\ UNCHANGED <<ws, gFile, iOps, iLast, oGraph, openFrame>>

\* the same for pattern-graph.json
OpenDamageGraph ==
  /\ iOps = 1 /\ oGraph = "ok"
  /\ \E s \in {"absent", "corrupt"} : oGraph' = s
  /\ gFile' = NoGraph
  /\ UNCHANGED <<ws, iCache, iOps, iLast, oIndex, openFrame>>

\* getIndex: the parsed cache, or null when the file cannot be read or parsed
GetIndex == IF oIndex = "ok" THEN iCache ELSE NoCache

\* ensureGraph: the graph is built when stat of the graph file fails
EnsureGraph(index) ==
  IF oGraph = "absent"
  THEN gFile' = BuildGraphFromIndex(index, 2) /\ oGraph' = "ok"
  ELSE UNCHANGED <<gFile, oGraph>>

\* getOrBuildIndex(workspaceUri)
OpenGetOrBuildIndex ==
  /\ iOps \in {0, 1}
  /\ iOps' = 2
  /\ IF GetIndex.exists
     THEN /\ EnsureGraph(GetIndex.files)
          /\ iLast' = Op("open", <<>>, {}, FALSE, gFile' # gFile, FALSE, {})
          /\ UNCHANGED <<iCache, oIndex>>
     ELSE /\ \E order \in Orders(Scanned(ws)) :
               BuildIndexInto(order, 2, Op("open", <<>>, {}, TRUE, TRUE, FALSE, {}))
          /\ oIndex' = "ok" /\ oGraph' = "ok"
  /\ UNCHANGED <<ws, openFrame>>

NextOpen ==
  \/ OpenBuild
  \/ OpenDamageIndex
  \/ OpenDamageGraph
  \/ OpenGetOrBuildIndex

SpecOpen == InitOpen /\ [][NextOpen]_vars

\* C33: after getOrBuildIndex both index.json and pattern-graph.json exist
\* and parse
C33_BothFilesParse == iOps = 2 => oIndex = "ok" /\ oGraph = "ok"

(* ------------------------------------------------------------------ *)
(* SpecMessage: what chatCompletion returns for one reply of the LLM    *)
(* (llm/provider.ts, extractMessage and the lines after res.json())     *)
(* ------------------------------------------------------------------ *)
\* a tool call: its function name and whether it was parsed from the content
ToolCall(name, fromText) == [name |-> name, fromText |-> fromText]

StructuredNames == {"read_file", "grep", "propose_edits"}

\* message.tool_calls: absent or empty, or one or two calls
StructuredCalls ==
  {<<>>}
    \cup {<<ToolCall(a, FALSE)>> : a \in StructuredNames}
    \cup {<<ToolCall(a, FALSE), ToolCall(b, FALSE)>> :
            a \in StructuredNames, b \in StructuredNames}

\* the content has no marker; a marker naming search_files with arguments that
\* parse; a marker naming a tool that is not in knownTools; a marker whose
\* arguments do not parse even when fixed
Markers == {"none", "known", "unknown", "badargs"}

Messages ==
  {[calls |-> c, content |-> k, marker |-> "none"] :
     c \in StructuredCalls, k \in {"null", "empty"}}
    \cup {[calls |-> c, content |-> "text", marker |-> m] :
            c \in StructuredCalls, m \in Markers}

\* parseDeepSeekToolCall: a call, or <<>> for null
ParseDeepSeekToolCall(msg) ==
  IF msg.marker = "known" THEN <<ToolCall("search_files", TRUE)>> ELSE <<>>

\* extractMessage for a reply with choices[0].message
ExtractMessage(msg) ==
  IF msg.content = "text" /\ ParseDeepSeekToolCall(msg) # <<>>
  THEN [calls |-> ParseDeepSeekToolCall(msg), content |-> "null", marker |-> "none"]
  ELSE msg

\* chatCompletion after res.json(): content, tool_calls, or null for neither
Completion(msg) ==
  LET content == IF msg.content = "text" THEN "text" ELSE "null"
  IN [asked   |-> TRUE,
      isNull  |-> content = "null" /\ msg.calls = <<>>,
      calls   |-> IF content = "null" /\ msg.calls = <<>> THEN <<>> ELSE msg.calls,
      content |-> content]

msgFrame == <<loopVars, files, valVars, httpVars, idxVars, ctxVars, schedVars,
              regVars, lookupVars, graphVars, pathVars, syncVars, openVars, logVars>>

InitMessage ==
  /\ LoopIdle /\ ValIdle /\ HttpIdle /\ IdxIdle
  /\ CtxIdle /\ SchedIdle /\ RegIdle /\ LookupIdle /\ GraphIdle /\ PathIdle
  /\ SyncIdle /\ OpenIdle /\ LogIdle
  /\ files = LoopFiles
  /\ mMsg \in Messages
  /\ mOut = NoReply

\* the response is read and the message is returned
MessageReturn ==
  /\ ~mOut.asked
  /\ mOut' = Completion(ExtractMessage(mMsg))
  /\ UNCHANGED <<mMsg, msgFrame>>

NextMessage == MessageReturn

SpecMessage == InitMessage /\ [][NextMessage]_vars

\* C34: a message with structured tool_calls is returned with exactly those
\* calls; a call is taken from the text of the content only when there are no
\* structured calls; the content is the whole answer only when there is no
\* call of either kind
C34_StructuredFirst ==
  mOut.asked =>
    /\ mMsg.calls # <<>> => mOut.calls = mMsg.calls
    /\ (\E i \in 1..Len(mOut.calls) : mOut.calls[i].fromText) => mMsg.calls = <<>>
    /\ ~mOut.isNull /\ mOut.calls = <<>>
         => mMsg.calls = <<>> /\ ParseDeepSeekToolCall(mMsg) = <<>>

(* ------------------------------------------------------------------ *)
(* SpecMistakes: the known-mistakes log (history/index.ts)              *)
(* ------------------------------------------------------------------ *)
\* A string is the sequence of its characters.
NL == "\n"

MAX_MISTAKES == 30

\* rule.slice(0, 60)
KeyLength == 60

\* fresh mistakes one behaviour appends
MaxFresh == 32

\* mistakes of the special shapes one behaviour appends
MaxSpecials == 3

\* the special shapes are appended while at most this many fresh ones are in
SpecialsUntil == 1

Letters == <<"a", "b", "c", "d", "e", "f">>

Rep(ch, n) == [i \in 1..n |-> ch]

LowerChar(ch) ==
  CASE ch = "A" -> "a" [] ch = "B" -> "b" [] ch = "T" -> "t" [] ch = "S" -> "s"
    [] OTHER -> ch

UpperChar(ch) ==
  CASE ch = "a" -> "A" [] ch = "b" -> "B" [] ch = "t" -> "T" [] ch = "s" -> "S"
    [] OTHER -> ch

ToLowerCase(s) == [i \in 1..Len(s) |-> LowerChar(s[i])]

ToUpperCase(s) == [i \in 1..Len(s) |-> UpperChar(s[i])]

Slice(s, from, to) == SubSeq(s, from + 1, IF to < Len(s) THEN to ELSE Len(s))

IsSpace(ch) == ch \in {" ", NL}

RECURSIVE TrimStart(_)
TrimStart(s) ==
  IF s # <<>> /\ IsSpace(s[1]) THEN TrimStart(Tail(s)) ELSE s

RECURSIVE TrimEnd(_)
TrimEnd(s) ==
  IF s # <<>> /\ IsSpace(s[Len(s)]) THEN TrimEnd(SubSeq(s, 1, Len(s) - 1)) ELSE s

Trim(s) == TrimEnd(TrimStart(s))

\* raw.split('\n')
RECURSIVE SplitLines(_)
SplitLines(s) ==
  IF \A i \in 1..Len(s) : s[i] # NL THEN <<s>>
  ELSE LET k == CHOOSE i \in 1..Len(s) : s[i] = NL /\ \A j \in 1..(i - 1) : s[j] # NL
       IN <<SubSeq(s, 1, k - 1)>> \o SplitLines(SubSeq(s, k + 1, Len(s)))

RECURSIVE JoinLines(_)
JoinLines(items) ==
  IF items = <<>> THEN <<>>
  ELSE IF Len(items) = 1 THEN items[1]
  ELSE items[1] \o <<NL>> \o JoinLines(Tail(items))

StartsWithDash(l) == Len(l) >= 2 /\ l[1] = "-" /\ l[2] = " "

\* .split('\n').filter((l) => l.startsWith('- ')).map((l) => l.slice(2).trim())
\* .filter(Boolean)
RECURSIVE ReadLines(_)
ReadLines(lines) ==
  IF lines = <<>> THEN <<>>
  ELSE LET m == IF StartsWithDash(lines[1])
                THEN Trim(Slice(lines[1], 2, Len(lines[1]))) ELSE <<>>
       IN (IF m # <<>> THEN <<m>> ELSE <<>>) \o ReadLines(Tail(lines))

ReadExisting(raw) == ReadLines(SplitLines(raw))

\* '# ...\n\n' + existing.map((m) => `- ${m}`).join('\n') + '\n'
FileContent(existing) ==
  <<"#", NL, NL>>
    \o JoinLines([i \in 1..Len(existing) |-> <<"-", " ">> \o existing[i]])
    \o <<NL>>

\* a mistake as normalizeMistakeToRule reads it: the TS code its pattern finds
\* (none: the empty string) and the text after the code, or after the prefix
\* `Ошибка валидации (попытка N):`
TsMistake(code, detail) == [code |-> code, text |-> detail]

PlainMistake(text) == [code |-> <<>>, text |-> text]

NormalizeMistakeToRule(mistake) ==
  IF mistake.code # <<>>
  THEN ToUpperCase(mistake.code) \o <<":", " ">> \o Trim(mistake.text)
  ELSE Trim(mistake.text)

MistakeKey(m) == ToLowerCase(Slice(m, 0, KeyLength))

\* appendLLMMistake: the file it leaves, and whether the rule was known
AppendLLMMistake(raw, mistake) ==
  LET existing     == ReadExisting(raw)
      rule         == NormalizeMistakeToRule(mistake)
      ruleKey      == MistakeKey(rule)
      alreadyKnown == \E i \in 1..Len(existing) : MistakeKey(existing[i]) = ruleKey
      pushed       == Append(existing, rule)
      kept         == IF Len(pushed) > MAX_MISTAKES
                      THEN SubSeq(pushed, Len(pushed) - MAX_MISTAKES + 1, Len(pushed))
                      ELSE pushed
  IN [known |-> alreadyKnown,
      raw   |-> IF alreadyKnown THEN raw ELSE FileContent(kept)]

\* the k-th fresh mistake: two letters
FreshName(k) == <<Letters[(k \div 6) + 1], Letters[(k % 6) + 1]>>

SpecialMistakes ==
  { TsMistake(<<"t", "s", "1">>, <<>>),
    PlainMistake(Rep("a", KeyLength) \o <<"b">>),
    PlainMistake(Rep("a", KeyLength) \o <<"c">>),
    PlainMistake(<<"a", "b", NL, "c", "d">>) }

NoAppend == [called |-> FALSE, known |-> FALSE, fresh |-> 0, specials |-> 0]

logFrame == <<loopVars, files, valVars, httpVars, idxVars, ctxVars, schedVars,
              regVars, lookupVars, graphVars, pathVars, syncVars, openVars, msgVars>>

\* no llm-mistakes.md yet
InitMistakes ==
  /\ LoopIdle /\ ValIdle /\ HttpIdle /\ IdxIdle
  /\ CtxIdle /\ SchedIdle /\ RegIdle /\ LookupIdle /\ GraphIdle /\ PathIdle
  /\ SyncIdle /\ OpenIdle /\ MsgIdle
  /\ files = LoopFiles
  /\ lLog = <<>>
  /\ lLast = NoAppend

Appended(mistake, fresh, specials) ==
  LET r == AppendLLMMistake(lLog, mistake)
  IN /\ lLog' = r.raw
     /\ lLast' = [called |-> TRUE, known |-> r.known,
                  fresh |-> fresh, specials |-> specials]

\* appendLLMMistake with a mistake no earlier call has given
MistakeFresh ==
  /\ lLast.fresh < MaxFresh
  /\ Appended(PlainMistake(FreshName(lLast.fresh + 1)), lLast.fresh + 1, lLast.specials)
  /\ UNCHANGED logFrame

\* appendLLMMistake with the latest fresh mistake again, in capitals
MistakeAgain ==
  /\ lLast.fresh >= 1
  /\ Appended(PlainMistake(ToUpperCase(FreshName(lLast.fresh))), lLast.fresh,
              lLast.specials)
  /\ UNCHANGED logFrame

\* appendLLMMistake with a TS code without detail, a long text, a text of
\* two lines
MistakeSpecial ==
  /\ lLast.fresh <= SpecialsUntil /\ lLast.specials < MaxSpecials
  /\ \E mistake \in SpecialMistakes :
       Appended(mistake, lLast.fresh, lLast.specials + 1)
  /\ UNCHANGED logFrame

NextMistakes ==
  \/ MistakeFresh
  \/ MistakeAgain
  \/ MistakeSpecial

SpecMistakes == InitMistakes /\ [][NextMistakes]_vars

LogEntries == ReadExisting(lLog)

NoDuplicateKeys ==
  \A i, j \in 1..Len(LogEntries) :
    i # j => MistakeKey(LogEntries[i]) # MistakeKey(LogEntries[j])

\* C40: the log never holds two entries of one key nor more than
\* MAX_MISTAKES entries; a call that finds the file full drops the oldest
\* entry, and a call whose key is known leaves the file as it is.
C40_DedupedAndCapped ==
  /\ [](NoDuplicateKeys /\ Len(LogEntries) <= MAX_MISTAKES)
  /\ [][/\ lLast'.called /\ lLast'.known => lLog' = lLog
        /\ lLog' # lLog /\ Len(LogEntries) = MAX_MISTAKES
             => SubSeq(ReadExisting(lLog'), 1, MAX_MISTAKES - 1) = Tail(LogEntries)]_vars

====
